---- MODULE Spec2Model ----
(***************************************************************************)
(* Reqres-clone REST service: the user and resource tables, the service     *)
(* functions of app/database and the HTTP handlers of app/routes.           *)
(*                                                                          *)
(* A Python str is a sequence of one-character strings; Optional[T] is      *)
(* <<>> (None) or <<v>>.  A table is the sequence of its rows in the order  *)
(* an unordered SELECT returns them (the store's scan order).               *)
(* resources_data is the list app/routes/system.py loads from the resource  *)
(* JSON file when the module is imported.  calls holds the requests that    *)
(* are between two store calls, one per worker thread.                      *)
(***************************************************************************)
EXTENDS Integers, Sequences, FiniteSets, TLC

VARIABLES users, user_seq, resources, resource_seq, router, resources_data,
          calls, resp, created, deleted

vars == <<users, user_seq, resources, resource_seq, router, resources_data,
          calls, resp, created, deleted>>

store == <<users, user_seq, resources, resource_seq>>

\* ------------------------------------------------------------------ bounds

\* primary keys a table hands out in one behaviour: the seeded rows and one
\* more for a create
MaxId == 3
\* largest page number a list request carries
MaxPage == 3
\* largest page size a list request carries
MaxSize == 2
\* faces random.randint draws from (12 in the source), scaled
MaxFace == 2

\* rows loaded by the seeding step before the first request
NumSeed == MaxId - 1

\* ------------------------------------------------------------ Optional[T]

None == <<>>

Some(v) == <<v>>

IsNone(o) == o = <<>>

Val(o) == o[1]

\* ------------------------------------------------------------------- str

\* str.strip() leaves nothing: every character is whitespace
IsBlank(s) == \A i \in 1..Len(s) : s[i] = " "

\* truthiness of a str: non-empty
Truthy(s) == Len(s) > 0

RECURSIVE split(_)
\* str.split(): the maximal runs of non-whitespace characters
split(s) ==
    IF Len(s) = 0 THEN <<>>
    ELSE IF s[1] = " " THEN split(Tail(s))
    ELSE LET rest == split(Tail(s))
         IN  IF Len(s) > 1 /\ s[2] # " "
             THEN <<(<<s[1]>> \o rest[1])>> \o Tail(rest)
             ELSE <<(<<s[1]>>)>> \o rest

lower_char(c) ==
    CASE c = "A" -> "a"
      [] c = "B" -> "b"
      [] OTHER   -> c

\* str.lower()
lower(s) == [i \in 1..Len(s) |-> lower_char(s[i])]

\* str.replace(' ', '.')
replace_space_dot(s) == [i \in 1..Len(s) |-> IF s[i] = " " THEN "." ELSE s[i]]

RECURSIVE digits(_)
\* str(n) for n >= 0: the decimal digits
digits(n) ==
    LET d == <<"0", "1", "2", "3", "4", "5", "6", "7", "8", "9">>
    IN  IF n < 10 THEN <<d[n + 1]>> ELSE digits(n \div 10) \o <<d[(n % 10) + 1]>>

\* str(n)
str(n) == IF n < 0 THEN <<"-">> \o digits(0 - n) ELSE digits(n)

RECURSIVE int(_)
\* int(s) for a string of decimal digits
int(s) ==
    IF Len(s) = 0 THEN 0
    ELSE LET c == s[Len(s)]
             v == CHOOSE k \in 0..9 : digits(k) = <<c>>
         IN  int(SubSeq(s, 1, Len(s) - 1)) * 10 + v

\* ----------------------------------------------------------------- store

\* the row with primary key id is in the table
has_row(tbl, id) == \E i \in 1..Len(tbl) : tbl[i].id = id

\* scan position of the row with primary key id
row_index(tbl, id) == CHOOSE i \in 1..Len(tbl) : tbl[i].id = id

\* session.get(Model, id): the row or None
session_get(tbl, id) ==
    IF has_row(tbl, id) THEN Some(tbl[row_index(tbl, id)]) ELSE None

\* SELECT ... OFFSET offset LIMIT limit, no ORDER BY: a window of the scan order
offset_limit(tbl, offset, limit) ==
    SubSeq(tbl, offset + 1, IF offset + limit < Len(tbl) THEN offset + limit ELSE Len(tbl))

\* the table without the tuple at scan position i
remove_at(tbl, i) == SubSeq(tbl, 1, i - 1) \o SubSeq(tbl, i + 1, Len(tbl))

\* the table with a tuple written at scan position pos; where a written tuple
\* lands in the scan order is the store's choice (end of the heap or reclaimed
\* space), so pos is an input of every write
place_at(tbl, pos, row) == SubSeq(tbl, 1, pos - 1) \o <<row>> \o SubSeq(tbl, pos, Len(tbl))

\* session.delete(row); session.commit()
session_delete(tbl, id) == remove_at(tbl, row_index(tbl, id))

\* session.add(row); session.commit() for a row already in the table: the new
\* version of the tuple is written at pos, the old version is gone
session_update(tbl, row, pos) == place_at(session_delete(tbl, row.id), pos, row)

\* ids of the rows, in scan order
ids_of(tbl) == [i \in 1..Len(tbl) |-> tbl[i].id]

\* set of the primary keys in the table
id_set(tbl) == {tbl[i].id : i \in 1..Len(tbl)}

\* ------------------------------------------------- app/database/users.py

\* fault: the store raises inside the try block (the session cannot be used)

get_user(tbl, user_id, fault) ==
    IF fault THEN None ELSE session_get(tbl, user_id)

\* get_users_paginated counting the rows of the window instead of the table
get_users_paginated_window_count(tbl, page, size, fault) ==
    IF fault
    THEN [items |-> <<>>, page |-> page, size |-> size, total |-> 0, pages |-> 0]
    ELSE LET offset      == (page - 1) * size
             found       == offset_limit(tbl, offset, size)
             total_count == Len(found)
             total_pages == (total_count + size - 1) \div size
         IN  [items |-> found, page |-> page, size |-> size,
              total |-> total_count, pages |-> total_pages]

get_users_paginated(tbl, page, size, fault) ==
    IF fault
    THEN [items |-> <<>>, page |-> page, size |-> size, total |-> 0, pages |-> 0]
    ELSE LET total_count == Len(tbl)
             offset      == (page - 1) * size
             found       == offset_limit(tbl, offset, size)
             total_pages == (total_count + size - 1) \div size
         IN  [items |-> found, page |-> page, size |-> size,
              total |-> total_count, pages |-> total_pages]

\* create_user numbering the new row by the count of rows in the table
db_create_user_count_id(tbl, seq, email, first_name, last_name, avatar, pos, fault) ==
    IF fault
    THEN [ret |-> None, tbl |-> tbl, seq |-> seq]
    ELSE LET new_user == [id |-> Len(tbl) + 1, email |-> email, first_name |-> first_name,
                          last_name |-> last_name, avatar |-> avatar]
         IN  [ret |-> Some(new_user), tbl |-> place_at(tbl, pos, new_user), seq |-> seq + 1]

\* returns the new row (or None), the table and the id sequence
db_create_user(tbl, seq, email, first_name, last_name, avatar, pos, fault) ==
    IF fault
    THEN [ret |-> None, tbl |-> tbl, seq |-> seq]
    ELSE LET new_user == [id |-> seq + 1, email |-> email, first_name |-> first_name,
                          last_name |-> last_name, avatar |-> avatar]
         IN  [ret |-> Some(new_user), tbl |-> place_at(tbl, pos, new_user), seq |-> seq + 1]

\* update_user testing the email for truth ("if email:") instead of "is not None"
db_update_user_truthy_email(tbl, user_id, email, first_name, last_name, avatar, pos, fault) ==
    IF fault \/ ~has_row(tbl, user_id)
    THEN [ret |-> None, tbl |-> tbl]
    ELSE LET user == Val(session_get(tbl, user_id))
             upd  == [id         |-> user.id,
                      email      |-> IF IsNone(email) \/ ~Truthy(Val(email))
                                     THEN user.email ELSE Val(email),
                      first_name |-> IF IsNone(first_name) THEN user.first_name ELSE Val(first_name),
                      last_name  |-> IF IsNone(last_name) THEN user.last_name ELSE Val(last_name),
                      avatar     |-> IF IsNone(avatar) THEN user.avatar ELSE Val(avatar)]
         IN  [ret |-> Some(upd), tbl |-> session_update(tbl, upd, pos)]

\* email, first_name, last_name, avatar are Optional; returns the row (or None)
\* and the table
db_update_user(tbl, user_id, email, first_name, last_name, avatar, pos, fault) ==
    IF fault \/ ~has_row(tbl, user_id)
    THEN [ret |-> None, tbl |-> tbl]
    ELSE LET user == Val(session_get(tbl, user_id))
             upd  == [id         |-> user.id,
                      email      |-> IF IsNone(email) THEN user.email ELSE Val(email),
                      first_name |-> IF IsNone(first_name) THEN user.first_name ELSE Val(first_name),
                      last_name  |-> IF IsNone(last_name) THEN user.last_name ELSE Val(last_name),
                      avatar     |-> IF IsNone(avatar) THEN user.avatar ELSE Val(avatar)]
         IN  [ret |-> Some(upd), tbl |-> session_update(tbl, upd, pos)]

\* delete_user returning True without session.delete
db_delete_user_no_delete(tbl, user_id, fault) ==
    IF fault \/ ~has_row(tbl, user_id)
    THEN [ret |-> FALSE, tbl |-> tbl]
    ELSE [ret |-> TRUE, tbl |-> tbl]

\* returns whether a row was removed, and the table
db_delete_user(tbl, user_id, fault) ==
    IF fault \/ ~has_row(tbl, user_id)
    THEN [ret |-> FALSE, tbl |-> tbl]
    ELSE [ret |-> TRUE, tbl |-> session_delete(tbl, user_id)]

get_users_count(tbl, fault) == IF fault THEN 0 ELSE Len(tbl)

\* --------------------------------------------- app/database/resources.py

get_resource(tbl, resource_id, fault) ==
    IF fault THEN None ELSE session_get(tbl, resource_id)

\* get_resources_paginated with offset = page * size
get_resources_paginated_offset(tbl, page, size, fault) ==
    IF fault
    THEN [items |-> <<>>, page |-> page, size |-> size, total |-> 0, pages |-> 0]
    ELSE LET total_count == Len(tbl)
             offset      == page * size
             found       == offset_limit(tbl, offset, size)
             total_pages == (total_count + size - 1) \div size
         IN  [items |-> found, page |-> page, size |-> size,
              total |-> total_count, pages |-> total_pages]

\* get_resources_paginated with offset = page - 1 (the page index, not rows)
get_resources_paginated_page_offset(tbl, page, size, fault) ==
    IF fault
    THEN [items |-> <<>>, page |-> page, size |-> size, total |-> 0, pages |-> 0]
    ELSE LET total_count == Len(tbl)
             offset      == page - 1
             found       == offset_limit(tbl, offset, size)
             total_pages == (total_count + size - 1) \div size
         IN  [items |-> found, page |-> page, size |-> size,
              total |-> total_count, pages |-> total_pages]

get_resources_paginated(tbl, page, size, fault) ==
    IF fault
    THEN [items |-> <<>>, page |-> page, size |-> size, total |-> 0, pages |-> 0]
    ELSE LET total_count == Len(tbl)
             offset      == (page - 1) * size
             found       == offset_limit(tbl, offset, size)
             total_pages == (total_count + size - 1) \div size
         IN  [items |-> found, page |-> page, size |-> size,
              total |-> total_count, pages |-> total_pages]

\* create_resource storing color and pantone_value in each other's column
db_create_resource_swapped(tbl, seq, name, year, color, pantone_value, pos, fault) ==
    IF fault
    THEN [ret |-> None, tbl |-> tbl, seq |-> seq]
    ELSE LET new_resource == [id |-> seq + 1, name |-> name, year |-> year,
                              color |-> pantone_value, pantone_value |-> color]
         IN  [ret |-> Some(new_resource), tbl |-> place_at(tbl, pos, new_resource),
              seq |-> seq + 1]

db_create_resource(tbl, seq, name, year, color, pantone_value, pos, fault) ==
    IF fault
    THEN [ret |-> None, tbl |-> tbl, seq |-> seq]
    ELSE LET new_resource == [id |-> seq + 1, name |-> name, year |-> year,
                              color |-> color, pantone_value |-> pantone_value]
         IN  [ret |-> Some(new_resource), tbl |-> place_at(tbl, pos, new_resource),
              seq |-> seq + 1]

db_update_resource(tbl, resource_id, name, year, color, pantone_value, pos, fault) ==
    IF fault \/ ~has_row(tbl, resource_id)
    THEN [ret |-> None, tbl |-> tbl]
    ELSE LET resource == Val(session_get(tbl, resource_id))
             upd == [id            |-> resource.id,
                     name          |-> IF IsNone(name) THEN resource.name ELSE Val(name),
                     year          |-> IF IsNone(year) THEN resource.year ELSE Val(year),
                     color         |-> IF IsNone(color) THEN resource.color ELSE Val(color),
                     pantone_value |-> IF IsNone(pantone_value) THEN resource.pantone_value
                                       ELSE Val(pantone_value)]
         IN  [ret |-> Some(upd), tbl |-> session_update(tbl, upd, pos)]

\* delete_resource returning True without session.commit(): the row stays
db_delete_resource_not_committed(tbl, resource_id, fault) ==
    IF fault \/ ~has_row(tbl, resource_id)
    THEN [ret |-> FALSE, tbl |-> tbl]
    ELSE [ret |-> TRUE, tbl |-> tbl]

db_delete_resource(tbl, resource_id, fault) ==
    IF fault \/ ~has_row(tbl, resource_id)
    THEN [ret |-> FALSE, tbl |-> tbl]
    ELSE [ret |-> TRUE, tbl |-> session_delete(tbl, resource_id)]

get_resources_count(tbl, fault) == IF fault THEN 0 ELSE Len(tbl)

\* ------------------------------------------------------------- responses

\* body of a response that carries none
NoDetail == [wrapped |-> FALSE, msg |-> <<>>]

\* HTTPException(detail="..."): the detail is a bare string
Bare(text) == [wrapped |-> FALSE, msg |-> <<text>>]

\* HTTPException(detail={"error": msg})
ErrorObject(msg) == [wrapped |-> TRUE, msg |-> msg]

\* f"{entity} {id} not found"
not_found(entity, id) == <<entity, " ">> \o str(id) \o <<" ", "not found">>

\* the static support block of a single-entity response
Support ==
    [url  |-> "https://contentcaddy.io?utm_source=reqres&utm_medium=json&utm_campaign=referral",
     text |-> "Tired of writing endless social media content? Let Content Caddy generate it for you."]

\* what the client saw of the last request: the handler, its inputs, the status
\* code, the error detail, the body, and whether a store call raised
Response(op, req, status, detail, body, fault) ==
    [op |-> op, req |-> req, status |-> status, detail |-> detail, body |-> body,
     fault |-> fault]

\* history: creates answered 201 whose id no PUT, PATCH or DELETE has named since
Forget(ent, id) == {c \in created : ~(c.ent = ent /\ int(c.id) = id)}

\* --------------------------------------------------------------- workers

\* the worker threads that run handlers side by side, each with a connection
\* of the pool (10 in the source), scaled
Calls == {1, 2}

\* what a worker holds of its request: the handler, how far it got, the inputs,
\* the count it read and the status it answered
Call(op, pc, req, total, status) ==
    [op |-> op, pc |-> pc, req |-> req, total |-> total, status |-> status]

Idle == Call("none", "idle", None, 0, 0)

\* worker c can take a request
Free(c) == calls[c].pc \in {"idle", "done"}

\* ---------------------------------------------------- app/routes/users.py

\* get_users_with_delay clamping page and size to 1 instead of rejecting them
get_users_with_delay_clamped(page, size, fault) ==
    /\ resp' = Response("get_users", [page |-> page, size |-> size], 200, NoDetail,
                        get_users_paginated(users, IF page < 1 THEN 1 ELSE page,
                                            IF size < 1 THEN 1 ELSE size, fault),
                        fault)
    /\ UNCHANGED <<store, router, resources_data, calls, created, deleted>>

get_users_with_delay(page, size, fault) ==
    /\ resp' = LET req == [page |-> page, size |-> size]
               IN  IF page < 1 \/ size < 1
                   THEN Response("get_users", req, 422, Bare("validation"), None, FALSE)
                   ELSE Response("get_users", req, 200, NoDetail,
                                 get_users_paginated(users, page, size, fault), fault)
    /\ UNCHANGED <<store, router, resources_data, calls, created, deleted>>

get_single_user(user_id, fault) ==
    /\ resp' = LET req == [id |-> user_id]
               IN  IF user_id < 1
                   THEN Response("get_single_user", req, 422, Bare("Invalid user ID"), None, FALSE)
                   ELSE LET user == get_user(users, user_id, fault)
                        IN  IF IsNone(user)
                            THEN Response("get_single_user", req, 404,
                                          ErrorObject(not_found("User", user_id)), None, fault)
                            ELSE Response("get_single_user", req, 200, NoDetail,
                                          [data |-> Val(user), support |-> Support], fault)
    /\ UNCHANGED <<store, router, resources_data, calls, created, deleted>>

create_user(name, job, face, pos, fault) ==
    LET req == [name |-> name, job |-> job]
        generated_email  == replace_space_dot(lower(name)) \o <<"@", "example.com">>
        generated_avatar == face
        first_name == IF Len(split(name)) > 0 THEN split(name)[1] ELSE name
        last_name  == IF Len(split(name)) > 1 THEN split(name)[Len(split(name))] ELSE <<>>
        db == db_create_user(users, user_seq, generated_email, first_name, last_name,
                             generated_avatar, pos, fault)
    IN  /\ IF ~Truthy(name) \/ IsBlank(name)
           THEN /\ resp' = Response("create_user", req, 400, Bare("Name is required"), None, FALSE)
                /\ UNCHANGED <<store, created>>
           ELSE IF ~Truthy(job) \/ IsBlank(job)
           THEN /\ resp' = Response("create_user", req, 400, Bare("Job is required"), None, FALSE)
                /\ UNCHANGED <<store, created>>
           ELSE /\ fault \/ user_seq < MaxId
                /\ users' = db.tbl
                /\ user_seq' = db.seq
                /\ UNCHANGED <<resources, resource_seq>>
                /\ IF IsNone(db.ret)
                   THEN /\ resp' = Response("create_user", req, 500,
                                            Bare("Failed to create user"), None, fault)
                        /\ UNCHANGED created
                   ELSE /\ resp' = Response("create_user", req, 201, NoDetail,
                                            [name |-> name, job |-> job,
                                             id |-> str(Val(db.ret).id)], fault)
                        /\ created' = created \cup
                              {[ent |-> "user", id |-> str(Val(db.ret).id), req |-> req]}
        /\ UNCHANGED <<router, resources_data, calls, deleted>>

\* update_user_put regenerating the email from the new name, as create_user does
update_user_put_result_email(tbl, user_id, name, job, pos, fault1, fault2) ==
    LET existing_user == get_user(tbl, user_id, fault1)
        name_parts == split(Val(name))
        first_name == IF Len(name_parts) > 0 THEN name_parts[1] ELSE Val(name)
        last_name  == IF Len(name_parts) > 1 THEN name_parts[Len(name_parts)] ELSE <<>>
        db == db_update_user(tbl, user_id,
                             Some(replace_space_dot(lower(Val(name))) \o <<"@", "example.com">>),
                             Some(first_name), Some(last_name), None, pos, fault2)
        answer == [name |-> name, job |-> job]
    IN  IF user_id < 1
        THEN [status |-> 422, detail |-> Bare("Invalid user ID"), body |-> None,
              tbl |-> tbl, fault |-> FALSE]
        ELSE IF IsNone(existing_user)
        THEN [status |-> 404, detail |-> ErrorObject(not_found("User", user_id)),
              body |-> None, tbl |-> tbl, fault |-> fault1]
        ELSE IF ~IsNone(name) /\ Truthy(Val(name))
        THEN [status |-> 200, detail |-> NoDetail, body |-> answer, tbl |-> db.tbl,
              fault |-> fault2]
        ELSE [status |-> 200, detail |-> NoDetail, body |-> answer, tbl |-> tbl,
              fault |-> FALSE]

\* PUT /api/users/{user_id}: the status, detail and body it answers with,
\* the table it leaves and whether a store call raised
update_user_put_result(tbl, user_id, name, job, pos, fault1, fault2) ==
    LET existing_user == get_user(tbl, user_id, fault1)
        name_parts == split(Val(name))
        first_name == IF Len(name_parts) > 0 THEN name_parts[1] ELSE Val(name)
        last_name  == IF Len(name_parts) > 1 THEN name_parts[Len(name_parts)] ELSE <<>>
        db == db_update_user(tbl, user_id, None, Some(first_name), Some(last_name),
                             None, pos, fault2)
        answer == [name |-> name, job |-> job]
    IN  IF user_id < 1
        THEN [status |-> 422, detail |-> Bare("Invalid user ID"), body |-> None,
              tbl |-> tbl, fault |-> FALSE]
        ELSE IF IsNone(existing_user)
        THEN [status |-> 404, detail |-> ErrorObject(not_found("User", user_id)),
              body |-> None, tbl |-> tbl, fault |-> fault1]
        ELSE IF ~IsNone(name) /\ Truthy(Val(name))
        THEN [status |-> 200, detail |-> NoDetail, body |-> answer, tbl |-> db.tbl,
              fault |-> fault2]
        ELSE [status |-> 200, detail |-> NoDetail, body |-> answer, tbl |-> tbl,
              fault |-> FALSE]

update_user_put(user_id, name, job, pos, fault1, fault2) ==
    \E out \in {update_user_put_result(users, user_id, name, job, pos, fault1, fault2)} :
        /\ resp' = Response("update_user_put", [id |-> user_id, name |-> name, job |-> job],
                            out.status, out.detail, out.body, out.fault)
        /\ users' = out.tbl
        /\ created' = IF user_id < 1 THEN created ELSE Forget("user", user_id)
        /\ UNCHANGED <<user_seq, resources, resource_seq, router, resources_data, calls, deleted>>

\* update_user_patch without the "if not existing_user" check
update_user_patch_unchecked(user_id, name, job, pos, fault1, fault2) ==
    LET req == [id |-> user_id, name |-> name, job |-> job]
        name_parts == split(Val(name))
        first_name == IF Len(name_parts) > 0 THEN name_parts[1] ELSE Val(name)
        last_name  == IF Len(name_parts) > 1 THEN name_parts[Len(name_parts)] ELSE <<>>
        db == db_update_user(users, user_id, None, Some(first_name), Some(last_name),
                             None, pos, fault2)
    IN  /\ IF user_id < 1
           THEN /\ resp' = Response("update_user_patch", req, 422, Bare("Invalid user ID"),
                                    None, FALSE)
                /\ UNCHANGED <<store, created>>
           ELSE /\ created' = Forget("user", user_id)
                /\ IF ~IsNone(name) /\ Truthy(Val(name))
                   THEN /\ users' = db.tbl
                        /\ UNCHANGED <<user_seq, resources, resource_seq>>
                        /\ resp' = Response("update_user_patch", req, 200, NoDetail,
                                            [name |-> name, job |-> job], fault2)
                   ELSE /\ UNCHANGED store
                        /\ resp' = Response("update_user_patch", req, 200, NoDetail,
                                            [name |-> name, job |-> job], FALSE)
        /\ UNCHANGED <<router, resources_data, calls, deleted>>

\* update_user_patch applying every name that is not None ("is not None" in
\* place of the truth test), an empty one included
update_user_patch_result_not_none(tbl, user_id, name, job, pos, fault1, fault2) ==
    LET existing_user == get_user(tbl, user_id, fault1)
        name_parts == split(Val(name))
        first_name == IF Len(name_parts) > 0 THEN name_parts[1] ELSE Val(name)
        last_name  == IF Len(name_parts) > 1 THEN name_parts[Len(name_parts)] ELSE <<>>
        db == db_update_user(tbl, user_id, None, Some(first_name), Some(last_name),
                             None, pos, fault2)
        answer == [name |-> name, job |-> job]
    IN  IF user_id < 1
        THEN [status |-> 422, detail |-> Bare("Invalid user ID"), body |-> None,
              tbl |-> tbl, fault |-> FALSE]
        ELSE IF IsNone(existing_user)
        THEN [status |-> 404, detail |-> ErrorObject(not_found("User", user_id)),
              body |-> None, tbl |-> tbl, fault |-> fault1]
        ELSE IF ~IsNone(name)
        THEN [status |-> 200, detail |-> NoDetail, body |-> answer, tbl |-> db.tbl,
              fault |-> fault2]
        ELSE [status |-> 200, detail |-> NoDetail, body |-> answer, tbl |-> tbl,
              fault |-> FALSE]

\* update_user_patch storing the last token as first_name and the first token
\* as last_name
update_user_patch_result_swapped(tbl, user_id, name, job, pos, fault1, fault2) ==
    LET existing_user == get_user(tbl, user_id, fault1)
        name_parts == split(Val(name))
        first_name == IF Len(name_parts) > 0 THEN name_parts[Len(name_parts)] ELSE Val(name)
        last_name  == IF Len(name_parts) > 1 THEN name_parts[1] ELSE <<>>
        db == db_update_user(tbl, user_id, None, Some(first_name), Some(last_name),
                             None, pos, fault2)
        answer == [name |-> name, job |-> job]
    IN  IF user_id < 1
        THEN [status |-> 422, detail |-> Bare("Invalid user ID"), body |-> None,
              tbl |-> tbl, fault |-> FALSE]
        ELSE IF IsNone(existing_user)
        THEN [status |-> 404, detail |-> ErrorObject(not_found("User", user_id)),
              body |-> None, tbl |-> tbl, fault |-> fault1]
        ELSE IF ~IsNone(name) /\ Truthy(Val(name))
        THEN [status |-> 200, detail |-> NoDetail, body |-> answer, tbl |-> db.tbl,
              fault |-> fault2]
        ELSE [status |-> 200, detail |-> NoDetail, body |-> answer, tbl |-> tbl,
              fault |-> FALSE]

\* PATCH /api/users/{user_id}: the status, detail and body it answers with,
\* the table it leaves and whether a store call raised
update_user_patch_result(tbl, user_id, name, job, pos, fault1, fault2) ==
    LET existing_user == get_user(tbl, user_id, fault1)
        name_parts == split(Val(name))
        first_name == IF Len(name_parts) > 0 THEN name_parts[1] ELSE Val(name)
        last_name  == IF Len(name_parts) > 1 THEN name_parts[Len(name_parts)] ELSE <<>>
        db == db_update_user(tbl, user_id, None, Some(first_name), Some(last_name),
                             None, pos, fault2)
        answer == [name |-> name, job |-> job]
    IN  IF user_id < 1
        THEN [status |-> 422, detail |-> Bare("Invalid user ID"), body |-> None,
              tbl |-> tbl, fault |-> FALSE]
        ELSE IF IsNone(existing_user)
        THEN [status |-> 404, detail |-> ErrorObject(not_found("User", user_id)),
              body |-> None, tbl |-> tbl, fault |-> fault1]
        ELSE IF ~IsNone(name) /\ Truthy(Val(name))
        THEN [status |-> 200, detail |-> NoDetail, body |-> answer, tbl |-> db.tbl,
              fault |-> fault2]
        ELSE [status |-> 200, detail |-> NoDetail, body |-> answer, tbl |-> tbl,
              fault |-> FALSE]

update_user_patch(user_id, name, job, pos, fault1, fault2) ==
    \E out \in {update_user_patch_result(users, user_id, name, job, pos, fault1, fault2)} :
        /\ resp' = Response("update_user_patch", [id |-> user_id, name |-> name, job |-> job],
                            out.status, out.detail, out.body, out.fault)
        /\ users' = out.tbl
        /\ created' = IF user_id < 1 THEN created ELSE Forget("user", user_id)
        /\ UNCHANGED <<user_seq, resources, resource_seq, router, resources_data, calls, deleted>>

delete_user(user_id, fault) ==
    LET req == [id |-> user_id]
        db == db_delete_user(users, user_id, fault)
    IN  /\ IF user_id < 1
           THEN /\ resp' = Response("delete_user", req, 422, Bare("Invalid user ID"), None, FALSE)
                /\ UNCHANGED <<store, created, deleted>>
           ELSE /\ created' = Forget("user", user_id)
                /\ users' = db.tbl
                /\ UNCHANGED <<user_seq, resources, resource_seq>>
                /\ IF ~db.ret
                   THEN /\ resp' = Response("delete_user", req, 404,
                                            ErrorObject(not_found("User", user_id)), None, fault)
                        /\ UNCHANGED deleted
                   ELSE /\ resp' = Response("delete_user", req, 204, NoDetail, None, fault)
                        /\ deleted' = deleted \cup {[ent |-> "user", id |-> user_id]}
        /\ UNCHANGED <<router, resources_data, calls>>

\* ------------------------------------------------ app/routes/resources.py

get_resources(page, size, fault) ==
    /\ resp' = LET req == [page |-> page, size |-> size]
               IN  IF page < 1 \/ size < 1
                   THEN Response("get_resources", req, 422, Bare("validation"), None, FALSE)
                   ELSE Response("get_resources", req, 200, NoDetail,
                                 get_resources_paginated(resources, page, size, fault), fault)
    /\ UNCHANGED <<store, router, resources_data, calls, created, deleted>>

\* get_single_resource rejecting only negative ids ("if resource_id < 0")
get_single_resource_zero(resource_id, fault) ==
    /\ resp' = LET req == [id |-> resource_id]
               IN  IF resource_id < 0
                   THEN Response("get_single_resource", req, 422, Bare("Invalid resource ID"),
                                 None, FALSE)
                   ELSE LET resource == get_resource(resources, resource_id, fault)
                        IN  IF IsNone(resource)
                            THEN Response("get_single_resource", req, 404,
                                          ErrorObject(not_found("Resource", resource_id)),
                                          None, fault)
                            ELSE Response("get_single_resource", req, 200, NoDetail,
                                          [data |-> Val(resource), support |-> Support], fault)
    /\ UNCHANGED <<store, router, resources_data, calls, created, deleted>>

get_single_resource(resource_id, fault) ==
    /\ resp' = LET req == [id |-> resource_id]
               IN  IF resource_id < 1
                   THEN Response("get_single_resource", req, 422, Bare("Invalid resource ID"),
                                 None, FALSE)
                   ELSE LET resource == get_resource(resources, resource_id, fault)
                        IN  IF IsNone(resource)
                            THEN Response("get_single_resource", req, 404,
                                          ErrorObject(not_found("Resource", resource_id)),
                                          None, fault)
                            ELSE Response("get_single_resource", req, 200, NoDetail,
                                          [data |-> Val(resource), support |-> Support], fault)
    /\ UNCHANGED <<store, router, resources_data, calls, created, deleted>>

create_resource(name, year, color, pantone_value, pos, fault) ==
    LET req == [name |-> name, year |-> year, color |-> color,
                pantone_value |-> pantone_value]
        db == db_create_resource(resources, resource_seq, name, year, color,
                                 pantone_value, pos, fault)
    IN  /\ IF ~Truthy(name) \/ IsBlank(name)
           THEN /\ resp' = Response("create_resource", req, 400, Bare("Name is required"),
                                    None, FALSE)
                /\ UNCHANGED <<store, created>>
           ELSE IF year < 1900 \/ year > 2100
           THEN /\ resp' = Response("create_resource", req, 400, Bare("Invalid year"),
                                    None, FALSE)
                /\ UNCHANGED <<store, created>>
           ELSE /\ fault \/ resource_seq < MaxId
                /\ resources' = db.tbl
                /\ resource_seq' = db.seq
                /\ UNCHANGED <<users, user_seq>>
                /\ IF IsNone(db.ret)
                   THEN /\ resp' = Response("create_resource", req, 500,
                                            Bare("Failed to create resource"), None, fault)
                        /\ UNCHANGED created
                   ELSE /\ resp' = Response("create_resource", req, 201, NoDetail,
                                            [name |-> name, year |-> year, color |-> color,
                                             pantone_value |-> pantone_value,
                                             id |-> str(Val(db.ret).id)], fault)
                        /\ created' = created \cup
                              {[ent |-> "resource", id |-> str(Val(db.ret).id), req |-> req]}
        /\ UNCHANGED <<router, resources_data, calls, deleted>>

\* PUT /api/unknown/{resource_id}: the status, detail and body it answers with,
\* the table it leaves and whether a store call raised
update_resource_put_result(tbl, resource_id, name, year, color, pantone_value, pos, fault1, fault2) ==
    LET existing_resource == get_resource(tbl, resource_id, fault1)
        db == db_update_resource(tbl, resource_id, name, year, color,
                                 pantone_value, pos, fault2)
        answer == [name |-> name, year |-> year, color |-> color,
                   pantone_value |-> pantone_value]
    IN  IF resource_id < 1
        THEN [status |-> 422, detail |-> Bare("Invalid resource ID"), body |-> None,
              tbl |-> tbl, fault |-> FALSE]
        ELSE IF IsNone(existing_resource)
        THEN [status |-> 404, detail |-> ErrorObject(not_found("Resource", resource_id)),
              body |-> None, tbl |-> tbl, fault |-> fault1]
        ELSE [status |-> 200, detail |-> NoDetail, body |-> answer, tbl |-> db.tbl,
              fault |-> fault2]

update_resource_put(resource_id, name, year, color, pantone_value, pos, fault1, fault2) ==
    \E out \in {update_resource_put_result(resources, resource_id, name, year, color, pantone_value,
                           pos, fault1, fault2)} :
        /\ resp' = Response("update_resource_put",
                            [id |-> resource_id, name |-> name, year |-> year,
                             color |-> color, pantone_value |-> pantone_value],
                            out.status, out.detail, out.body, out.fault)
        /\ resources' = out.tbl
        /\ created' = IF resource_id < 1 THEN created ELSE Forget("resource", resource_id)
        /\ UNCHANGED <<users, user_seq, resource_seq, router, resources_data, calls, deleted>>

\* PATCH /api/unknown/{resource_id}: the status, detail and body it answers with,
\* the table it leaves and whether a store call raised
update_resource_patch_result(tbl, resource_id, name, year, color, pantone_value, pos, fault1, fault2) ==
    LET existing_resource == get_resource(tbl, resource_id, fault1)
        db == db_update_resource(tbl, resource_id, name, year, color,
                                 pantone_value, pos, fault2)
        answer == [name |-> name, year |-> year, color |-> color,
                   pantone_value |-> pantone_value]
    IN  IF resource_id < 1
        THEN [status |-> 422, detail |-> Bare("Invalid resource ID"), body |-> None,
              tbl |-> tbl, fault |-> FALSE]
        ELSE IF IsNone(existing_resource)
        THEN [status |-> 404, detail |-> ErrorObject(not_found("Resource", resource_id)),
              body |-> None, tbl |-> tbl, fault |-> fault1]
        ELSE [status |-> 200, detail |-> NoDetail, body |-> answer, tbl |-> db.tbl,
              fault |-> fault2]

update_resource_patch(resource_id, name, year, color, pantone_value, pos, fault1, fault2) ==
    \E out \in {update_resource_patch_result(resources, resource_id, name, year, color, pantone_value,
                           pos, fault1, fault2)} :
        /\ resp' = Response("update_resource_patch",
                            [id |-> resource_id, name |-> name, year |-> year,
                             color |-> color, pantone_value |-> pantone_value],
                            out.status, out.detail, out.body, out.fault)
        /\ resources' = out.tbl
        /\ created' = IF resource_id < 1 THEN created ELSE Forget("resource", resource_id)
        /\ UNCHANGED <<users, user_seq, resource_seq, router, resources_data, calls, deleted>>

\* delete_resource answering 204 whatever delete_resource of the store returned
delete_resource_always_204(resource_id, fault) ==
    LET req == [id |-> resource_id]
        db == db_delete_resource(resources, resource_id, fault)
    IN  /\ IF resource_id < 1
           THEN /\ resp' = Response("delete_resource", req, 422, Bare("Invalid resource ID"),
                                    None, FALSE)
                /\ UNCHANGED <<store, created, deleted>>
           ELSE /\ created' = Forget("resource", resource_id)
                /\ resources' = db.tbl
                /\ UNCHANGED <<users, user_seq, resource_seq>>
                /\ resp' = Response("delete_resource", req, 204, NoDetail, None, fault)
                /\ deleted' = deleted \cup {[ent |-> "resource", id |-> resource_id]}
        /\ UNCHANGED <<router, resources_data, calls>>

delete_resource(resource_id, fault) ==
    LET req == [id |-> resource_id]
        db == db_delete_resource(resources, resource_id, fault)
    IN  /\ IF resource_id < 1
           THEN /\ resp' = Response("delete_resource", req, 422, Bare("Invalid resource ID"),
                                    None, FALSE)
                /\ UNCHANGED <<store, created, deleted>>
           ELSE /\ created' = Forget("resource", resource_id)
                /\ resources' = db.tbl
                /\ UNCHANGED <<users, user_seq, resource_seq>>
                /\ IF ~db.ret
                   THEN /\ resp' = Response("delete_resource", req, 404,
                                            ErrorObject(not_found("Resource", resource_id)),
                                            None, fault)
                        /\ UNCHANGED deleted
                   ELSE /\ resp' = Response("delete_resource", req, 204, NoDetail, None, fault)
                        /\ deleted' = deleted \cup {[ent |-> "resource", id |-> resource_id]}
        /\ UNCHANGED <<router, resources_data, calls>>

\* ------------------------------------------------------------- seed data

\* the i-th seeded user (app/data/users.json, the list of app/main.py)
SeedUser(i) ==
    [id |-> i, email |-> <<"u">> \o str(i) \o <<"@", "reqres.in">>,
     first_name |-> <<"u">> \o str(i), last_name |-> <<"w">>, avatar |-> i]

\* the i-th seeded resource
SeedResource(i) ==
    [id |-> i, name |-> <<"c">> \o str(i), year |-> 1999 + i,
     color |-> <<"#">> \o str(i), pantone_value |-> <<"p">> \o str(i)]

\* --------------------------------------------------------- request inputs

\* path ids: 0 (rejected) and the ids a table hands out; an id has no row
\* before it is assigned and after its row is deleted
Ids == 0..MaxId

Pages == 0..MaxPage

Sizes == 0..MaxSize

Faces == 1..MaxFace

\* POST /api/users payloads: empty name, blank name, empty job, valid
UserCreates ==
    {[name |-> <<>>, job |-> <<"j">>],
     [name |-> <<" ">>, job |-> <<"j">>],
     [name |-> <<"A", " ", "b">>, job |-> <<>>],
     [name |-> <<"A", " ", "b">>, job |-> <<"j">>]}

\* PUT/PATCH payloads of a user: no name, empty name, a name
UserUpdates ==
    {[name |-> None, job |-> Some(<<"j">>)],
     [name |-> Some(<<>>), job |-> None],
     [name |-> Some(<<"c">>), job |-> Some(<<"j">>)]}

\* POST /api/unknown payloads: empty name, year below and above the range, valid
ResourceCreates ==
    {[name |-> <<>>, year |-> 2024, color |-> <<"#", "f">>, pantone_value |-> <<"p", "v">>],
     [name |-> <<"n">>, year |-> 1899, color |-> <<"#", "f">>, pantone_value |-> <<"p", "v">>],
     [name |-> <<"n">>, year |-> 2101, color |-> <<"#", "f">>, pantone_value |-> <<"p", "v">>],
     [name |-> <<"n">>, year |-> 2024, color |-> <<"#", "f">>, pantone_value |-> <<"p", "v">>]}

\* PUT/PATCH payloads of a resource: nothing, some of the fields
ResourceUpdates ==
    {[name |-> None, year |-> None, color |-> None, pantone_value |-> None],
     [name |-> Some(<<"m">>), year |-> Some(2025), color |-> None, pantone_value |-> None]}

\* where the store writes a new row: the end of the scan order or, once a row
\* of the seq rows ever inserted is gone, the space reclaimed from it (the front)
InsertPositions(tbl, seq) == IF seq > Len(tbl) THEN {1, Len(tbl) + 1} ELSE {Len(tbl) + 1}

\* where the store writes the new version of row id: the place of the old
\* version or the end of the scan order
UpdatePositions(tbl, id) == IF has_row(tbl, id) THEN {row_index(tbl, id), Len(tbl)} ELSE {1}

\* ------------------------------------------------------------------ Spec

\* each behaviour drives one router: users.py touches only the user table and
\* resources.py only the resource table
Init ==
    /\ users = [i \in 1..NumSeed |-> SeedUser(i)]
    /\ user_seq = NumSeed
    /\ resources = [i \in 1..NumSeed |-> SeedResource(i)]
    /\ resource_seq = NumSeed
    /\ router \in {"users", "resources"}
    /\ resources_data = [i \in 1..NumSeed |-> SeedResource(i)]
    /\ calls = [c \in Calls |-> Idle]
    /\ resp = Response("none", None, 0, NoDetail, None, FALSE)
    /\ created = {}
    /\ deleted = {}

\* the store is reachable: no service call raises
Next ==
    \/ /\ router = "users"
       /\ \E page \in Pages, size \in Sizes : get_users_with_delay(page, size, FALSE)
    \/ /\ router = "users"
       /\ \E user_id \in Ids : get_single_user(user_id, FALSE)
    \/ /\ router = "users"
       /\ \E u \in UserCreates, pos \in InsertPositions(users, user_seq) :
             create_user(u.name, u.job, 1, pos, FALSE)
    \/ /\ router = "users"
       /\ \E user_id \in Ids, u \in UserUpdates :
             \E pos \in UpdatePositions(users, user_id) :
                update_user_put(user_id, u.name, u.job, pos, FALSE, FALSE)
    \/ /\ router = "users"
       /\ \E user_id \in Ids, u \in UserUpdates :
             \E pos \in UpdatePositions(users, user_id) :
                update_user_patch(user_id, u.name, u.job, pos, FALSE, FALSE)
    \/ /\ router = "users"
       /\ \E user_id \in Ids : delete_user(user_id, FALSE)
    \/ /\ router = "resources"
       /\ \E page \in Pages, size \in Sizes : get_resources(page, size, FALSE)
    \/ /\ router = "resources"
       /\ \E resource_id \in Ids : get_single_resource(resource_id, FALSE)
    \/ /\ router = "resources"
       /\ \E r \in ResourceCreates, pos \in InsertPositions(resources, resource_seq) :
             create_resource(r.name, r.year, r.color, r.pantone_value, pos, FALSE)
    \/ /\ router = "resources"
       /\ \E resource_id \in Ids, u \in ResourceUpdates :
             \E pos \in UpdatePositions(resources, resource_id) :
                update_resource_put(resource_id, u.name, u.year, u.color,
                                    u.pantone_value, pos, FALSE, FALSE)
    \/ /\ router = "resources"
       /\ \E resource_id \in Ids, u \in ResourceUpdates :
             \E pos \in UpdatePositions(resources, resource_id) :
                update_resource_patch(resource_id, u.name, u.year, u.color,
                                      u.pantone_value, pos, FALSE, FALSE)
    \/ /\ router = "resources"
       /\ \E resource_id \in Ids : delete_resource(resource_id, FALSE)

Spec == Init /\ [][Next]_vars

\* ------------------------------------------------------------- SpecStore

\* The service functions update_user and update_resource called directly, with
\* every combination of null and non-null arguments the payloads below give,
\* next to the PUT and PATCH handlers of users that call update_user.

call_update_user(user_id, email, first_name, last_name, avatar, pos) ==
    LET db == db_update_user(users, user_id, email, first_name, last_name, avatar,
                             pos, FALSE)
    IN  /\ users' = db.tbl
        /\ resp' = Response("db_update_user",
                            [id |-> user_id, email |-> email, first_name |-> first_name,
                             last_name |-> last_name, avatar |-> avatar],
                            0, NoDetail, db.ret, FALSE)
        /\ UNCHANGED <<user_seq, resources, resource_seq, router, resources_data, calls,
                       created, deleted>>

call_update_resource(resource_id, name, year, color, pantone_value, pos) ==
    LET db == db_update_resource(resources, resource_id, name, year, color,
                                 pantone_value, pos, FALSE)
    IN  /\ resources' = db.tbl
        /\ resp' = Response("db_update_resource",
                            [id |-> resource_id, name |-> name, year |-> year,
                             color |-> color, pantone_value |-> pantone_value],
                            0, NoDetail, db.ret, FALSE)
        /\ UNCHANGED <<users, user_seq, resource_seq, router, resources_data, calls,
                       created, deleted>>

\* arguments of update_user: none, the email alone (one empty, non-null), the
\* avatar alone, the two names the handlers pass
UserFieldUpdates ==
    {[email |-> None, first_name |-> None, last_name |-> None, avatar |-> None],
     [email |-> Some(<<"e", "@", "x">>), first_name |-> None, last_name |-> None,
      avatar |-> None],
     [email |-> Some(<<>>), first_name |-> None, last_name |-> None, avatar |-> None],
     [email |-> None, first_name |-> None, last_name |-> None, avatar |-> Some(9)],
     [email |-> None, first_name |-> Some(<<"c">>), last_name |-> Some(<<>>),
      avatar |-> None]}

\* arguments of update_resource: none, the name alone (one empty, non-null), the
\* year alone, the colour and its pantone value
ResourceFieldUpdates ==
    {[name |-> None, year |-> None, color |-> None, pantone_value |-> None],
     [name |-> Some(<<"m">>), year |-> None, color |-> None, pantone_value |-> None],
     [name |-> Some(<<>>), year |-> None, color |-> None, pantone_value |-> None],
     [name |-> None, year |-> Some(0), color |-> None, pantone_value |-> None],
     [name |-> None, year |-> None, color |-> Some(<<"%">>),
      pantone_value |-> Some(<<"q">>)]}

\* PUT/PATCH payloads of a resource in this specification: nothing, a name
ResourceNameUpdates ==
    {[name |-> None, year |-> None, color |-> None, pantone_value |-> None],
     [name |-> Some(<<"m">>), year |-> None, color |-> None, pantone_value |-> None]}

\* ids the direct calls name: none (0), the two rows, an id with no row
StoreIds == {0, 1, 2, 3}

\* a store holding the first two seeded rows of each table
InitStore ==
    /\ users = <<SeedUser(1), SeedUser(2)>>
    /\ user_seq = 2
    /\ resources = <<SeedResource(1), SeedResource(2)>>
    /\ resource_seq = 2
    /\ router \in {"users", "resources"}
    /\ resources_data = <<SeedResource(1), SeedResource(2)>>
    /\ calls = [c \in Calls |-> Idle]
    /\ resp = Response("none", None, 0, NoDetail, None, FALSE)
    /\ created = {}
    /\ deleted = {}

NextStore ==
    \/ /\ router = "users"
       /\ \E user_id \in StoreIds, u \in UserFieldUpdates :
             \E pos \in UpdatePositions(users, user_id) :
                call_update_user(user_id, u.email, u.first_name, u.last_name, u.avatar, pos)
    \/ /\ router = "users"
       /\ \E user_id \in StoreIds, u \in UserUpdates :
             \E pos \in UpdatePositions(users, user_id) :
                update_user_put(user_id, u.name, u.job, pos, FALSE, FALSE)
    \/ /\ router = "users"
       /\ \E user_id \in StoreIds, u \in UserUpdates :
             \E pos \in UpdatePositions(users, user_id) :
                update_user_patch(user_id, u.name, u.job, pos, FALSE, FALSE)
    \/ /\ router = "resources"
       /\ \E resource_id \in StoreIds, u \in ResourceFieldUpdates :
             \E pos \in UpdatePositions(resources, resource_id) :
                call_update_resource(resource_id, u.name, u.year, u.color,
                                     u.pantone_value, pos)
    \/ /\ router = "resources"
       /\ \E resource_id \in StoreIds, u \in ResourceNameUpdates :
             \E pos \in UpdatePositions(resources, resource_id) :
                update_resource_put(resource_id, u.name, u.year, u.color,
                                    u.pantone_value, pos, FALSE, FALSE)
    \/ /\ router = "resources"
       /\ \E resource_id \in StoreIds, u \in ResourceNameUpdates :
             \E pos \in UpdatePositions(resources, resource_id) :
                update_resource_patch(resource_id, u.name, u.year, u.color,
                                      u.pantone_value, pos, FALSE, FALSE)

SpecStore == InitStore /\ [][NextStore]_vars

\* ================================================================= claims

ListOps == {"get_users", "get_resources"}

GetOps == {"get_single_user", "get_single_resource"}

CreateOps == {"create_user", "create_resource"}

UpdateOps == {"update_user_put", "update_user_patch",
              "update_resource_put", "update_resource_patch"}

DeleteOps == {"delete_user", "delete_resource"}

UserOps == {"get_users", "get_single_user", "create_user", "update_user_put",
            "update_user_patch", "delete_user", "db_update_user"}

\* the entity a handler serves, as it appears in messages and in the history
EntityOf(op) == IF op \in UserOps THEN "user" ELSE "resource"

\* the table a handler works on, in a state given by its two tables
TableOf(op, u, r) == IF op \in UserOps THEN u ELSE r

\* the list response of the last request was a page (200)
Listed == resp.op \in ListOps /\ resp.status = 200

\* ceil(a / b) for b >= 1
Ceil(a, b) == CHOOSE k \in 0..a : k * b >= a /\ (k = 0 \/ (k - 1) * b < a)

Min(a, b) == IF a < b THEN a ELSE b

\* the elements of a finite set of integers in ascending order
Ascending(S) ==
    [i \in 1..Cardinality(S) |-> CHOOSE x \in S : Cardinality({y \in S : y < x}) = i - 1]

\* the row of tbl with primary key id
RowOf(tbl, id) == tbl[row_index(tbl, id)]

\* the rows of tbl other than the one with primary key id, in scan order
Others(tbl, id) == IF has_row(tbl, id) THEN session_delete(tbl, id) ELSE tbl

\* C1: every page envelope has pages == 1 when total == 0 and pages ==
\* ceil(total/size) otherwise, by the same rule for users and for resources.
C1_PagesRule ==
    Listed =>
        resp.body.pages = (IF resp.body.total = 0 THEN 1
                           ELSE Ceil(resp.body.total, resp.req.size))

\* C2: a list request with page > pages succeeds with items == [] and reports
\* the total and pages that a request for page 1 with the same size reports in
\* the same store state.
C2_BeyondLastPage ==
    (resp.op \in ListOps /\ resp.req.page >= 1 /\ resp.req.size >= 1) =>
        LET first == IF resp.op = "get_users"
                     THEN get_users_paginated(users, 1, resp.req.size, FALSE)
                     ELSE get_resources_paginated(resources, 1, resp.req.size, FALSE)
        IN  /\ resp.status = 200
            /\ resp.req.page > first.pages =>
                  /\ resp.body.items = <<>>
                  /\ resp.body.total = first.total
                  /\ resp.body.pages = first.pages
                  /\ resp.body.total = Len(TableOf(resp.op, users, resources))

C2_Witness ==
    /\ Listed
    /\ resp.op = "get_users"
    /\ resp.body.total > 0
    /\ resp.req.page > resp.body.pages

\* C3: with no concurrent writer, a list response for page <= pages has
\* len(items) == min(size, total - (page-1)*size), and every page has
\* len(items) <= size.
C3_ItemsCount ==
    Listed =>
        /\ Len(resp.body.items) <= resp.req.size
        /\ resp.body.total = Len(TableOf(resp.op, users, resources))
        /\ resp.req.page <= resp.body.pages =>
              Len(resp.body.items) =
                 Min(resp.req.size, resp.body.total - (resp.req.page - 1) * resp.req.size)

C3_Witness ==
    /\ Listed
    /\ resp.op = "get_resources"
    /\ resp.req.page = 2
    /\ resp.req.page <= resp.body.pages
    /\ Len(resp.body.items) = 1
    /\ resp.req.size = 2

\* C4: the items of every list response are in ascending id order and are the
\* records at positions (page-1)*size .. (page-1)*size+size-1 of the id-sorted
\* store contents, after any sequence of creates, updates and deletes.
C4_AscendingWindow ==
    Listed =>
        LET tbl    == TableOf(resp.op, users, resources)
            sorted == Ascending(id_set(tbl))
            offset == (resp.req.page - 1) * resp.req.size
        IN  /\ ids_of(resp.body.items) =
                  SubSeq(sorted, offset + 1, Min(offset + resp.req.size, Len(sorted)))
            /\ \A i \in 1..Len(resp.body.items) :
                  resp.body.items[i] = RowOf(tbl, resp.body.items[i].id)

\* C5: after a successful create the id in the response is the positive
\* store-assigned id rendered as a string, and until an update or delete names
\* that id a GET by it returns 200 with an entity carrying that id; a resource
\* comes back with the name, year, color and pantone_value it was created with.
C5_CreateGetRoundTrip ==
    /\ (resp.op \in CreateOps /\ resp.status = 201) =>
          LET k   == int(resp.body.id)
              tbl == TableOf(resp.op, users, resources)
          IN  /\ str(k) = resp.body.id
              /\ k >= 1
              /\ has_row(tbl, k)
              /\ k = (IF resp.op = "create_user" THEN user_seq ELSE resource_seq)
              /\ [ent |-> EntityOf(resp.op), id |-> resp.body.id, req |-> resp.req] \in created
    /\ resp.op \in GetOps =>
          \A c \in created :
             (c.ent = EntityOf(resp.op) /\ int(c.id) = resp.req.id) =>
                /\ resp.status = 200
                /\ resp.body.data.id = resp.req.id
                /\ c.ent = "resource" =>
                      /\ resp.body.data.name = c.req.name
                      /\ resp.body.data.year = c.req.year
                      /\ resp.body.data.color = c.req.color
                      /\ resp.body.data.pantone_value = c.req.pantone_value

C5_Witness ==
    /\ resp.op = "get_single_resource"
    /\ resp.status = 200
    /\ \E c \in created : c.ent = "resource" /\ int(c.id) = resp.req.id
    /\ deleted # {}

\* C6: after a DELETE of an existing id returned 204, every later GET for that
\* id returns 404, whatever creates, updates and deletes of other ids follow.
C6_DeletedStaysGone ==
    resp.op \in GetOps =>
        ([ent |-> EntityOf(resp.op), id |-> resp.req.id] \in deleted => resp.status = 404)

C6_Witness ==
    /\ resp.op = "get_single_user"
    /\ [ent |-> "user", id |-> resp.req.id] \in deleted
    /\ user_seq > NumSeed
    /\ resp.status = 404

C10_GetOutcomes ==
    resp.op \in GetOps =>
        LET id     == resp.req.id
            tbl    == TableOf(resp.op, users, resources)
            entity == IF resp.op = "get_single_user" THEN "User" ELSE "Resource"
        IN  /\ id <= 0 => resp.status = 422
            /\ (id >= 1 /\ ~has_row(tbl, id)) =>
                  /\ resp.status = 404
                  /\ resp.detail.wrapped
                  /\ resp.detail.msg = <<entity, " ">> \o str(id) \o <<" ", "not found">>
            /\ (id >= 1 /\ has_row(tbl, id)) =>
                  /\ resp.status = 200
                  /\ resp.body.data = RowOf(tbl, id)
                  /\ resp.body.support = Support

C10_Witness ==
    /\ resp.op = "get_single_user"
    /\ resp.req.id = MaxId
    /\ ~has_row(users, MaxId)
    /\ resp.status = 404

\* the value a field holds after an update called with argument arg
Updated(arg, old) == IF arg = None THEN old ELSE arg[1]

\* C9: update_user and update_resource overwrite exactly the fields whose
\* argument is non-null and leave the other fields of the row, its id and every
\* other row unchanged; a name update through PUT or PATCH leaves the user's
\* email and avatar as they were.
C9_UpdateFrame ==
    [][/\ resp'.op = "db_update_user" =>
             LET a == resp'.req
             IN  IF has_row(users, a.id)
                 THEN /\ has_row(users', a.id)
                      /\ RowOf(users', a.id) =
                            [id         |-> a.id,
                             email      |-> Updated(a.email, RowOf(users, a.id).email),
                             first_name |-> Updated(a.first_name, RowOf(users, a.id).first_name),
                             last_name  |-> Updated(a.last_name, RowOf(users, a.id).last_name),
                             avatar     |-> Updated(a.avatar, RowOf(users, a.id).avatar)]
                      /\ resp'.body = <<RowOf(users', a.id)>>
                      /\ Others(users', a.id) = Others(users, a.id)
                      /\ UNCHANGED <<user_seq, resources, resource_seq>>
                 ELSE resp'.body = None /\ store' = store
       /\ resp'.op = "db_update_resource" =>
             LET a == resp'.req
             IN  IF has_row(resources, a.id)
                 THEN /\ has_row(resources', a.id)
                      /\ RowOf(resources', a.id) =
                            [id            |-> a.id,
                             name          |-> Updated(a.name, RowOf(resources, a.id).name),
                             year          |-> Updated(a.year, RowOf(resources, a.id).year),
                             color         |-> Updated(a.color, RowOf(resources, a.id).color),
                             pantone_value |-> Updated(a.pantone_value,
                                                       RowOf(resources, a.id).pantone_value)]
                      /\ resp'.body = <<RowOf(resources', a.id)>>
                      /\ Others(resources', a.id) = Others(resources, a.id)
                      /\ UNCHANGED <<users, user_seq, resource_seq>>
                 ELSE resp'.body = None /\ store' = store
       /\ (resp'.op \in {"update_user_put", "update_user_patch"} /\ resp'.status = 200) =>
             /\ has_row(users, resp'.req.id) /\ has_row(users', resp'.req.id)
             /\ RowOf(users', resp'.req.id).email = RowOf(users, resp'.req.id).email
             /\ RowOf(users', resp'.req.id).avatar = RowOf(users, resp'.req.id).avatar
             /\ Others(users', resp'.req.id) = Others(users, resp'.req.id)
             /\ UNCHANGED <<user_seq, resources, resource_seq>>]_vars

C9_Witness ==
    /\ resp.op = "db_update_user"
    /\ resp.req.email = Some(<<>>)
    /\ resp.body # None
    /\ resp.body[1].email = <<>>
    /\ resp.body[1].first_name # SeedUser(resp.req.id).first_name

\* the handlers of the three routers that raise HTTPException themselves
HandlerOps == GetOps \cup CreateOps \cup UpdateOps \cup DeleteOps \cup
              {"register_user", "login_user"}

\* C11: every error response a users, resources or auth handler raises (400,
\* 404, 422, 500) has the body {"detail": {"error": <non-empty message>}}.
C11_ErrorShape ==
    (resp.op \in HandlerOps /\ resp.status \in {400, 404, 422, 500}) =>
        /\ resp.detail.wrapped
        /\ resp.detail.msg # <<>>

\* the ids of the entities of kind ent answered 204 so far
DeletedIds(ent) == {d.id : d \in {x \in deleted : x.ent = ent}}

\* no two live rows share an id, and no live or deleted id lies beyond the last
\* id the store assigned
IdsAssigned ==
    /\ Cardinality(id_set(users)) = Len(users)
    /\ Cardinality(id_set(resources)) = Len(resources)
    /\ id_set(users) \cup DeletedIds("user") \subseteq 1..user_seq
    /\ id_set(resources) \cup DeletedIds("resource") \subseteq 1..resource_seq

UserCreatesAll ==
    UserCreates \cup {[name |-> <<"A", " ", "b">>, job |-> <<" ">>]}

\* POST /api/unknown payloads of ResourceCreates and two whose color, resp.
\* pantone_value, is whitespace-only, resp. empty
ResourceCreatesAll ==
    ResourceCreates \cup
    {[name |-> <<"n">>, year |-> 2024, color |-> <<" ">>, pantone_value |-> <<"p", "v">>],
     [name |-> <<"n">>, year |-> 2024, color |-> <<"#", "f">>, pantone_value |-> <<>>]}

\* PUT/PATCH payloads of a resource: nothing, a year above the range
ResourceUpdatesAll ==
    {[name |-> None, year |-> None, color |-> None, pantone_value |-> None],
     [name |-> None, year |-> Some(2101), color |-> None, pantone_value |-> None]}

NextValidation ==
    \/ /\ router = "users"
       /\ \E u \in UserCreatesAll, face \in Faces, pos \in InsertPositions(users, user_seq) :
             create_user(u.name, u.job, face, pos, FALSE)
    \/ /\ router = "users"
       /\ \E user_id \in Ids : delete_user(user_id, FALSE)
    \/ /\ router = "resources"
       /\ \E r \in ResourceCreatesAll, pos \in InsertPositions(resources, resource_seq) :
             create_resource(r.name, r.year, r.color, r.pantone_value, pos, FALSE)
    \/ /\ router = "resources"
       /\ \E resource_id \in Ids, u \in ResourceUpdatesAll :
             \E pos \in UpdatePositions(resources, resource_id) :
                update_resource_put(resource_id, u.name, u.year, u.color,
                                    u.pantone_value, pos, FALSE, FALSE)
    \/ /\ router = "resources"
       /\ \E resource_id \in Ids, u \in ResourceUpdatesAll :
             \E pos \in UpdatePositions(resources, resource_id) :
                update_resource_patch(resource_id, u.name, u.year, u.color,
                                      u.pantone_value, pos, FALSE, FALSE)
    \/ /\ router = "resources"
       /\ \E resource_id \in Ids : delete_resource(resource_id, FALSE)

SpecValidation == Init /\ [][NextValidation]_vars

\* a string that is empty or holds only whitespace
Blank(s) == \A i \in 1..Len(s) : s[i] = " "

\* the year range the API declares
YearInRange(y) == y >= 1900 /\ y <= 2100

\* C13: a create request in which a required string field (users: name, job;
\* resources: name, color, pantone_value) is empty or whitespace-only, or in
\* which a resource's year is outside 1900..2100, is answered 400 and leaves
\* the store as it was.
C13_CreateValidation ==
    [][/\ (resp'.op = "create_user" /\ (Blank(resp'.req.name) \/ Blank(resp'.req.job))) =>
             (resp'.status = 400 /\ store' = store)
       /\ (resp'.op = "create_resource"
              /\ (\/ Blank(resp'.req.name)
                  \/ Blank(resp'.req.color)
                  \/ Blank(resp'.req.pantone_value)
                  \/ ~YearInRange(resp'.req.year))) =>
             (resp'.status = 400 /\ store' = store)]_vars

\* C14: starting from a store whose resources all have year in 1900..2100,
\* after any sequence of POST, PUT, PATCH and DELETE requests on the resources
\* endpoints every stored resource still has year in 1900..2100.
C14_YearInvariant ==
    \A i \in 1..Len(resources) : YearInRange(resources[i].year)

\* ---------------------------------------------------- app/routes/system.py

\* check_database_connection reporting a connection after the probe raised
check_database_connection_optimistic(tbl, fault) ==
    IF fault
    THEN [connected |-> TRUE, users_count |-> 0]
    ELSE [connected |-> TRUE, users_count |-> Len(tbl)]

\* returns whether the probe query succeeded, and the number of users
check_database_connection(tbl, fault) ==
    IF fault
    THEN [connected |-> FALSE, users_count |-> 0]
    ELSE [connected |-> TRUE, users_count |-> Len(tbl)]

\* GET /status (version, database type and timestamp left out)
get_status(fault) ==
    LET probe == check_database_connection(users, fault)
        db_connected == probe.connected
        users_count == probe.users_count
        resources_count == Len(resources_data)
        resources_status == resources_count > 0
        overall_status == IF db_connected /\ resources_status THEN "healthy" ELSE "unhealthy"
    IN  /\ resp' = Response("get_status", None, 200, NoDetail,
                            [status   |-> overall_status,
                             database |-> [status |-> IF db_connected THEN "connected"
                                                      ELSE "disconnected",
                                           users_count |-> users_count],
                             data     |-> [users     |-> [loaded |-> users_count > 0,
                                                          count  |-> users_count],
                                           resources |-> [loaded |-> resources_status,
                                                          count  |-> resources_count]]],
                            fault)
        /\ UNCHANGED <<store, router, resources_data, calls, created, deleted>>

\* ------------------------------------------------------------- SpecFault

\* The store may fail: any service call may raise inside its try block.  The
\* system router serves GET /status while users come and go.

\* the resource JSON file holds the seeded resources or an empty list
InitFault ==
    /\ users = [i \in 1..NumSeed |-> SeedUser(i)]
    /\ user_seq = NumSeed
    /\ resources = [i \in 1..NumSeed |-> SeedResource(i)]
    /\ resource_seq = NumSeed
    /\ router \in {"users", "resources", "system"}
    /\ resources_data \in {<<>>, [i \in 1..NumSeed |-> SeedResource(i)]}
    /\ router # "system" => resources_data # <<>>
    /\ calls = [c \in Calls |-> Idle]
    /\ resp = Response("none", None, 0, NoDetail, None, FALSE)
    /\ created = {}
    /\ deleted = {}

\* a valid payload of each write
ValidUser == [name |-> <<"A", " ", "b">>, job |-> <<"j">>]

ValidUserUpdate == [name |-> Some(<<"c">>), job |-> Some(<<"j">>)]

ValidResource ==
    [name |-> <<"n">>, year |-> 2024, color |-> <<"#", "f">>, pantone_value |-> <<"p", "v">>]

ValidResourceUpdate ==
    [name |-> Some(<<"m">>), year |-> Some(2025), color |-> None, pantone_value |-> None]

NextFault ==
    \/ /\ router = "users"
       /\ \E page \in Pages, size \in Sizes, fault \in BOOLEAN :
             get_users_with_delay(page, size, fault)
    \/ /\ router = "users"
       /\ \E user_id \in Ids, fault \in BOOLEAN : get_single_user(user_id, fault)
    \/ /\ router = "users"
       /\ \E pos \in InsertPositions(users, user_seq), fault \in BOOLEAN :
             create_user(ValidUser.name, ValidUser.job, 1, pos, fault)
    \/ /\ router = "users"
       /\ \E user_id \in Ids, fault1 \in BOOLEAN, fault2 \in BOOLEAN :
             \E pos \in UpdatePositions(users, user_id) :
                update_user_put(user_id, ValidUserUpdate.name, ValidUserUpdate.job, pos,
                                fault1, fault2)
    \/ /\ router = "users"
       /\ \E user_id \in Ids, fault1 \in BOOLEAN, fault2 \in BOOLEAN :
             \E pos \in UpdatePositions(users, user_id) :
                update_user_patch(user_id, ValidUserUpdate.name, ValidUserUpdate.job, pos,
                                  fault1, fault2)
    \/ /\ router = "users"
       /\ \E user_id \in Ids, fault \in BOOLEAN : delete_user(user_id, fault)
    \/ /\ router = "resources"
       /\ \E page \in Pages, size \in Sizes, fault \in BOOLEAN :
             get_resources(page, size, fault)
    \/ /\ router = "resources"
       /\ \E resource_id \in Ids, fault \in BOOLEAN : get_single_resource(resource_id, fault)
    \/ /\ router = "resources"
       /\ \E pos \in InsertPositions(resources, resource_seq), fault \in BOOLEAN :
             create_resource(ValidResource.name, ValidResource.year, ValidResource.color,
                             ValidResource.pantone_value, pos, fault)
    \/ /\ router = "resources"
       /\ \E resource_id \in Ids, fault1 \in BOOLEAN, fault2 \in BOOLEAN :
             \E pos \in UpdatePositions(resources, resource_id) :
                update_resource_put(resource_id, ValidResourceUpdate.name,
                                    ValidResourceUpdate.year, ValidResourceUpdate.color,
                                    ValidResourceUpdate.pantone_value, pos, fault1, fault2)
    \/ /\ router = "resources"
       /\ \E resource_id \in Ids, fault1 \in BOOLEAN, fault2 \in BOOLEAN :
             \E pos \in UpdatePositions(resources, resource_id) :
                update_resource_patch(resource_id, ValidResourceUpdate.name,
                                      ValidResourceUpdate.year, ValidResourceUpdate.color,
                                      ValidResourceUpdate.pantone_value, pos, fault1, fault2)
    \/ /\ router = "resources"
       /\ \E resource_id \in Ids, fault \in BOOLEAN : delete_resource(resource_id, fault)
    \/ /\ router = "system"
       /\ \E fault \in BOOLEAN : get_status(fault)
    \/ /\ router = "system"
       /\ \E pos \in InsertPositions(users, user_seq) :
             create_user(ValidUser.name, ValidUser.job, 1, pos, FALSE)
    \/ /\ router = "system"
       /\ \E user_id \in Ids : delete_user(user_id, FALSE)
    \/ /\ router = "system"
       /\ \E resource_id \in Ids : delete_resource(resource_id, FALSE)

SpecFault == InitFault /\ [][NextFault]_vars

\* C15: a list request with page < 1 or size < 1 is answered 422 by parameter
\* validation before any store query is issued: no store call is made (none
\* can raise, whatever the state of the store) and the store is not changed.
C15_ListParams ==
    [][(resp'.op \in ListOps /\ (resp'.req.page < 1 \/ resp'.req.size < 1)) =>
          /\ resp'.status = 422
          /\ resp'.body = None
          /\ ~resp'.fault
          /\ store' = store]_vars

C15_Witness ==
    /\ resp.op = "get_users"
    /\ resp.req.page >= 1
    /\ resp.req.size < 1
    /\ resp.status = 422
    /\ Len(users) > 0

\* ------------------------------------------------------ app/routes/auth.py

\* the syntax rule of validate_email, reduced to its frame: one "@", a local
\* part, and a domain of non-empty labels separated by at least one period
well_formed(email) ==
    /\ Cardinality({i \in 1..Len(email) : email[i] = "@"}) = 1
    /\ LET at     == CHOOSE i \in 1..Len(email) : email[i] = "@"
           domain == SubSeq(email, at + 1, Len(email))
       IN  /\ at > 1
           /\ Len(domain) > 0
           /\ domain[1] # "." /\ domain[Len(domain)] # "."
           /\ \E i \in 1..Len(domain) : domain[i] = "."
           /\ \A i \in 1..(Len(domain) - 1) : ~(domain[i] = "." /\ domain[i + 1] = ".")

\* validate_email(email) does not raise EmailNotValidError: the address is well
\* formed and the DNS lookup of its domain (check_deliverability, on unless
\* switched off by the caller) does not report the domain as nonexistent
validate_email(email, deliverable) == well_formed(email) /\ deliverable

\* the token both handlers return
Token == "QpwL5tke4Pnpja7X4"

\* register_user passing the password check before the email format check
register_user_password_first(email, password, deliverable, user_id) ==
    /\ resp' = LET req == [email |-> email, password |-> password,
                           deliverable |-> deliverable]
               IN  IF IsNone(email) \/ ~Truthy(Val(email))
                   THEN Response("register_user", req, 400, ErrorObject(<<"Missing email">>),
                                 None, FALSE)
                   ELSE IF IsNone(password) \/ ~Truthy(Val(password))
                   THEN Response("register_user", req, 400,
                                 ErrorObject(<<"Missing password">>), None, FALSE)
                   ELSE IF ~validate_email(Val(email), deliverable)
                   THEN Response("register_user", req, 400,
                                 ErrorObject(<<"Invalid email format">>), None, FALSE)
                   ELSE Response("register_user", req, 201, NoDetail,
                                 [id |-> user_id, token |-> Token], FALSE)
    /\ UNCHANGED <<store, router, resources_data, calls, created, deleted>>

\* POST /api/register; deliverable is the answer of the DNS lookup, user_id the
\* number random.randint draws
register_user(email, password, deliverable, user_id) ==
    /\ resp' = LET req == [email |-> email, password |-> password,
                           deliverable |-> deliverable]
               IN  IF IsNone(email) \/ ~Truthy(Val(email))
                   THEN Response("register_user", req, 400, ErrorObject(<<"Missing email">>),
                                 None, FALSE)
                   ELSE IF ~validate_email(Val(email), deliverable)
                   THEN Response("register_user", req, 400,
                                 ErrorObject(<<"Invalid email format">>), None, FALSE)
                   ELSE IF IsNone(password) \/ ~Truthy(Val(password))
                   THEN Response("register_user", req, 400,
                                 ErrorObject(<<"Missing password">>), None, FALSE)
                   ELSE Response("register_user", req, 201, NoDetail,
                                 [id |-> user_id, token |-> Token], FALSE)
    /\ UNCHANGED <<store, router, resources_data, calls, created, deleted>>

\* POST /api/login
login_user(email, password, deliverable) ==
    /\ resp' = LET req == [email |-> email, password |-> password,
                           deliverable |-> deliverable]
               IN  IF IsNone(email) \/ ~Truthy(Val(email))
                   THEN Response("login_user", req, 400, ErrorObject(<<"Missing email">>),
                                 None, FALSE)
                   ELSE IF ~validate_email(Val(email), deliverable)
                   THEN Response("login_user", req, 400,
                                 ErrorObject(<<"Invalid email format">>), None, FALSE)
                   ELSE IF IsNone(password) \/ ~Truthy(Val(password))
                   THEN Response("login_user", req, 400,
                                 ErrorObject(<<"Missing password">>), None, FALSE)
                   ELSE Response("login_user", req, 200, NoDetail, [token |-> Token], FALSE)
    /\ UNCHANGED <<store, router, resources_data, calls, created, deleted>>

\* -------------------------------------------------------------- SpecAuth

\* The auth router, while the tables change under it.

\* largest id register_user draws (10 in the source), scaled
MaxRegisterId == 2

RegisterIds == 1..MaxRegisterId

\* "email" of the request body: absent, empty, without a domain, without a
\* period in the domain, well formed
Emails ==
    {None, Some(<<>>), Some(<<"a", "@">>), Some(<<"a", "@", "b">>),
     Some(<<"a", "@", "b", ".", "c">>)}

\* "password" of the request body: absent, empty, present
Passwords == {None, Some(<<>>), Some(<<"p">>)}

InitAuth ==
    /\ users = [i \in 1..NumSeed |-> SeedUser(i)]
    /\ user_seq = NumSeed
    /\ resources = [i \in 1..NumSeed |-> SeedResource(i)]
    /\ resource_seq = NumSeed
    /\ router = "auth"
    /\ resources_data = [i \in 1..NumSeed |-> SeedResource(i)]
    /\ calls = [c \in Calls |-> Idle]
    /\ resp = Response("none", None, 0, NoDetail, None, FALSE)
    /\ created = {}
    /\ deleted = {}

NextAuth ==
    \/ \E email \in Emails, password \in Passwords, deliverable \in BOOLEAN,
          user_id \in RegisterIds :
          register_user(email, password, deliverable, user_id)
    \/ \E email \in Emails, password \in Passwords, deliverable \in BOOLEAN :
          login_user(email, password, deliverable)
    \/ \E pos \in InsertPositions(users, user_seq) :
          create_user(ValidUser.name, ValidUser.job, 1, pos, FALSE)
    \/ \E user_id \in Ids : delete_user(user_id, FALSE)
    \/ \E resource_id \in Ids : delete_resource(resource_id, FALSE)

SpecAuth == InitAuth /\ [][NextAuth]_vars

AuthOps == {"register_user", "login_user"}

\* the message of an error detail of the {"error": ...} shape
ErrorIs(text) == resp.detail = [wrapped |-> TRUE, msg |-> <<text>>]

C17_AuthFrame ==
    [][(/\ resp'.op \in AuthOps
        /\ resp'.req.email # None /\ well_formed(resp'.req.email[1])
        /\ resp'.req.password # None /\ resp'.req.password # Some(<<>>)) =>
          /\ store' = store
          /\ resp'.op = "register_user" =>
                /\ resp'.status = 201
                /\ resp'.body.id >= 1
                /\ resp'.body.token = Token
          /\ resp'.op = "login_user" =>
                /\ resp'.status = 200
                /\ resp'.body = [token |-> Token]]_vars

\* C18: the status endpoint always answers 200 and reports status "healthy" if
\* and only if the store probe succeeds and at least one resource record is
\* loaded; a failing probe yields database status "disconnected" and overall
\* status "unhealthy" rather than an error from the endpoint.
C18_Status ==
    resp.op = "get_status" =>
        /\ resp.status = 200
        /\ resp.body.status \in {"healthy", "unhealthy"}
        /\ resp.body.status = "healthy" <=> (~resp.fault /\ Len(resources_data) >= 1)
        /\ resp.body.database.status = (IF resp.fault THEN "disconnected" ELSE "connected")
        /\ resp.fault => resp.body.status = "unhealthy"

C18_Witness ==
    /\ resp.op = "get_status"
    /\ resp.fault
    /\ Len(resources_data) >= 1
    /\ Len(users) >= 1
    /\ resp.body.status = "unhealthy"
    /\ resp.body.database.status = "disconnected"

\* the page the list handler of the last response answers for page number
\* page, with the size of that response, in the current store state
PageOf(page) ==
    IF resp.op = "get_users"
    THEN get_users_paginated(users, page, resp.req.size, FALSE)
    ELSE get_resources_paginated(resources, page, resp.req.size, FALSE)

\* C19: in every reachable store state no two entities in list responses share
\* an id: the ids within one page are pairwise distinct, and two different
\* pages requested with the same size in the same state have disjoint id sets.
C19_DistinctIds ==
    Listed =>
        /\ resp.body = PageOf(resp.req.page)
        /\ \A p \in 1..(MaxPage + 1) :
              Cardinality(id_set(PageOf(p).items)) = Len(PageOf(p).items)
        /\ \A p, q \in 1..(MaxPage + 1) :
              p # q => id_set(PageOf(p).items) \cap id_set(PageOf(q).items) = {}

C19_Witness ==
    /\ Listed
    /\ resp.op = "get_resources"
    /\ resp.req.size = 1
    /\ resp.req.page = 2
    /\ Len(resp.body.items) = 1
    /\ Len(PageOf(1).items) = 1
    /\ created # {}

\* what a client and the store see of an update: status, detail, body, table
Seen(out) == [status |-> out.status, detail |-> out.detail, body |-> out.body,
              tbl |-> out.tbl]

\* C20: PUT and PATCH are equivalent: for every store state, id and payload,
\* the PUT handler and the PATCH handler of the same entity type produce the
\* same status code, the same response fields (other than the timestamp) and
\* the same resulting store state.
C20_PutPatchEquivalent ==
    [][/\ resp'.op \in {"update_user_put", "update_user_patch"} =>
             LET r == resp'.req
                 step == [status |-> resp'.status, detail |-> resp'.detail,
                          body |-> resp'.body, tbl |-> users']
             IN  /\ \A pos \in UpdatePositions(users, r.id) :
                       Seen(update_user_put_result(users, r.id, r.name, r.job, pos,
                                                   FALSE, FALSE))
                       = Seen(update_user_patch_result(users, r.id, r.name, r.job, pos,
                                                       FALSE, FALSE))
                 /\ \E pos \in UpdatePositions(users, r.id) :
                       step = Seen(update_user_put_result(users, r.id, r.name, r.job, pos,
                                                          FALSE, FALSE))
                 /\ UNCHANGED <<user_seq, resources, resource_seq>>
       /\ resp'.op \in {"update_resource_put", "update_resource_patch"} =>
             LET r == resp'.req
                 step == [status |-> resp'.status, detail |-> resp'.detail,
                          body |-> resp'.body, tbl |-> resources']
             IN  /\ \A pos \in UpdatePositions(resources, r.id) :
                       Seen(update_resource_put_result(resources, r.id, r.name, r.year,
                               r.color, r.pantone_value, pos, FALSE, FALSE))
                       = Seen(update_resource_patch_result(resources, r.id, r.name, r.year,
                               r.color, r.pantone_value, pos, FALSE, FALSE))
                 /\ \E pos \in UpdatePositions(resources, r.id) :
                       step = Seen(update_resource_put_result(resources, r.id, r.name,
                               r.year, r.color, r.pantone_value, pos, FALSE, FALSE))
                 /\ UNCHANGED <<users, user_seq, resource_seq>>]_vars

C20_Witness ==
    /\ resp.op = "update_user_patch"
    /\ resp.status = 200
    /\ resp.req.name = Some(<<>>)
    /\ has_row(users, resp.req.id)
    /\ RowOf(users, resp.req.id).first_name = <<"c">>

\* C21: no service function of the store layer propagates a store exception:
\* when the underlying store operation fails the function returns its sentinel
\* and the handler answers with an HTTP error response (a status of 400 or
\* above) instead of raising.
C21_FailureAnswered ==
    (resp.fault /\ resp.op \in HandlerOps \cup ListOps) => resp.status >= 400

\* -------------------------------------------------------------- SpecNames

\* The users router with names of one, two and three tokens and two creates in
\* a behaviour.

\* names a client sends: one token, two tokens, three tokens
Names == {<<"c">>, <<"A", " ", "b">>, <<"A", " ", "b", " ", "c">>}

\* POST /api/users payloads with each name
UserNameCreates == {[name |-> n, job |-> <<"j">>] : n \in Names}

\* PUT/PATCH payloads of a user: no name, an empty name, three tokens
UserNameUpdates ==
    {[name |-> None, job |-> Some(<<"j">>)],
     [name |-> Some(<<>>), job |-> Some(<<"j">>)],
     [name |-> Some(<<"A", " ", "b", " ", "c">>), job |-> None]}

\* the store writes the new version of a row in the place of the old one
InPlace(tbl, id) == IF has_row(tbl, id) THEN row_index(tbl, id) ELSE 1

\* a store seeded with one user
InitNames ==
    /\ users = <<SeedUser(1)>>
    /\ user_seq = 1
    /\ resources = [i \in 1..NumSeed |-> SeedResource(i)]
    /\ resource_seq = NumSeed
    /\ router = "users"
    /\ resources_data = [i \in 1..NumSeed |-> SeedResource(i)]
    /\ calls = [c \in Calls |-> Idle]
    /\ resp = Response("none", None, 0, NoDetail, None, FALSE)
    /\ created = {}
    /\ deleted = {}

NextNames ==
    \/ \E size \in 1..MaxSize : get_users_with_delay(1, size, FALSE)
    \/ \E user_id \in Ids : get_single_user(user_id, FALSE)
    \/ \E u \in UserNameCreates : create_user(u.name, u.job, 1, Len(users) + 1, FALSE)
    \/ \E user_id \in Ids, u \in UserNameUpdates :
          update_user_put(user_id, u.name, u.job, InPlace(users, user_id), FALSE, FALSE)
    \/ \E user_id \in Ids, u \in UserNameUpdates :
          update_user_patch(user_id, u.name, u.job, InPlace(users, user_id), FALSE, FALSE)

SpecNames == InitNames /\ [][NextNames]_vars

\* ------------------------------------------------------------ SpecAvatars

\* Creates of one payload with every face the avatar can show.

NextAvatars ==
    \/ \E user_id \in Ids : get_single_user(user_id, FALSE)
    \/ \E face \in Faces :
          create_user(ValidUser.name, ValidUser.job, face, Len(users) + 1, FALSE)
    \/ \E user_id \in Ids : delete_user(user_id, FALSE)

SpecAvatars == InitNames /\ [][NextAvatars]_vars

\* the user schema the tests assert (id, first_name, last_name)
UserSchema(u) ==
    /\ u.id >= 1
    /\ Len(u.first_name) >= 1 /\ Len(u.first_name) <= 50
    /\ Len(u.last_name) >= 1 /\ Len(u.last_name) <= 50

\* C22: every user entity the API returns (single GET and list items) has
\* id >= 1 and a first_name and a last_name of length 1..50 each, for users
\* created through POST /api/users with any name the create handler accepts
\* and after any PUT/PATCH.
C22_UserSchema ==
    /\ (resp.op = "get_single_user" /\ resp.status = 200) => UserSchema(resp.body.data)
    /\ (resp.op = "get_users" /\ resp.status = 200) =>
          \A i \in 1..Len(resp.body.items) : UserSchema(resp.body.items[i])

RECURSIVE join(_)
\* " ".join(tokens)
join(tokens) ==
    IF Len(tokens) = 0 THEN <<>>
    ELSE IF Len(tokens) = 1 THEN tokens[1]
    ELSE tokens[1] \o <<" ">> \o join(Tail(tokens))

\* the last step stored a name: a create answered 201, or a PUT or PATCH
\* answered 200 whose payload carries a non-empty name
NameStored(r) ==
    \/ r.op = "create_user" /\ r.status = 201
    \/ /\ r.op \in {"update_user_put", "update_user_patch"}
       /\ r.status = 200
       /\ r.req.name # None /\ r.req.name # Some(<<>>)

\* the name that step carried
NameOf(r) == IF r.op = "create_user" THEN r.req.name ELSE r.req.name[1]

\* the id of the row that step wrote
TargetOf(r) == IF r.op = "create_user" THEN int(r.body.id) ELSE r.req.id

\* C23 as stated: the last token becomes last_name and the remaining tokens,
\* joined, become first_name; a single-token name gives first_name equal to
\* that token and an empty last_name.
C23_RemainderFirstName ==
    [][(NameStored(resp') /\ Len(split(NameOf(resp'))) >= 1) =>
          LET tokens == split(NameOf(resp'))
              row    == RowOf(users', TargetOf(resp'))
          IN  IF Len(tokens) = 1
              THEN row.first_name = tokens[1] /\ row.last_name = <<>>
              ELSE /\ row.last_name = tokens[Len(tokens)]
                   /\ row.first_name = join(SubSeq(tokens, 1, Len(tokens) - 1))]_vars

\* C23, amended: the first token becomes first_name and, when the name has two
\* or more tokens, the last token becomes last_name (the tokens between them
\* are dropped); a single-token name gives first_name equal to that token and
\* an empty last_name.
C23_FirstAndLastToken ==
    [][(NameStored(resp') /\ Len(split(NameOf(resp'))) >= 1) =>
          LET tokens == split(NameOf(resp'))
              row    == RowOf(users', TargetOf(resp'))
          IN  /\ has_row(users', TargetOf(resp'))
              /\ row.first_name = tokens[1]
              /\ row.last_name = (IF Len(tokens) = 1 THEN <<>> ELSE tokens[Len(tokens)])]_vars

C23_Witness ==
    /\ resp.op = "create_user"
    /\ resp.status = 201
    /\ resp.req.name = <<"A", " ", "b", " ", "c">>
    /\ RowOf(users, int(resp.body.id)).first_name = <<"A">>
    /\ RowOf(users, int(resp.body.id)).last_name = <<"c">>

\* C24: the email and avatar synthesized on user creation are deterministic
\* functions of the request: two create requests with the same name and job
\* store the same email and the same avatar (the rows differ only in id).
C24_DeterministicPlaceholders ==
    \A c1, c2 \in created :
       (/\ c1.ent = "user" /\ c2.ent = "user"
        /\ c1.req = c2.req
        /\ has_row(users, int(c1.id)) /\ has_row(users, int(c2.id))) =>
          /\ RowOf(users, int(c1.id)).email = RowOf(users, int(c2.id)).email
          /\ RowOf(users, int(c1.id)).avatar = RowOf(users, int(c2.id)).avatar

\* the columns of the user table
UserColumns == {"id", "email", "first_name", "last_name", "avatar"}

\* C28: a PUT or PATCH on an existing user whose payload has no name (null or
\* empty) returns 200 and leaves the store completely unchanged, and no user
\* update ever persists job or changes email or avatar: the only stored fields
\* a user update can change are first_name and last_name of the targeted row.
C28_UserUpdateFrame ==
    [][resp'.op \in {"update_user_put", "update_user_patch"} =>
          LET id   == resp'.req.id
              name == resp'.req.name
          IN  /\ (id >= 1 /\ has_row(users, id) /\ (name = None \/ name = Some(<<>>))) =>
                    (resp'.status = 200 /\ store' = store)
              /\ UNCHANGED <<user_seq, resources, resource_seq>>
              /\ id_set(users') = id_set(users)
              /\ Len(users') = Len(users)
              /\ \A k \in id_set(users) :
                    /\ DOMAIN RowOf(users', k) = UserColumns
                    /\ RowOf(users', k).email = RowOf(users, k).email
                    /\ RowOf(users', k).avatar = RowOf(users, k).avatar
                    /\ k # id => RowOf(users', k) = RowOf(users, k)]_vars

C28_Witness ==
    /\ resp.op = "update_user_patch"
    /\ resp.status = 200
    /\ resp.req.name = None
    /\ resp.req.id = 1
    /\ RowOf(users, 1).first_name = <<"A">>
    /\ RowOf(users, 1).last_name = <<"c">>
    /\ RowOf(users, 1).email = SeedUser(1).email

\* C25: after any sequence of creates and deletes, the row counts the status
\* endpoint reports equal the current store contents: data.users.count is the
\* number of user rows, data.resources.count the number of resource rows, and
\* each loaded flag is true exactly when its count is > 0.
C25_StatusCounts ==
    (resp.op = "get_status" /\ ~resp.fault) =>
        /\ resp.body.data.users.count = Len(users)
        /\ resp.body.data.resources.count = Len(resources)
        /\ resp.body.data.users.loaded <=> (resp.body.data.users.count > 0)
        /\ resp.body.data.resources.loaded <=> (resp.body.data.resources.count > 0)

\* the ids of a table for which GET by id answers 200
Gettable(op) ==
    {id \in 1..(MaxId + 1) :
        IF op = "get_users"
        THEN ~IsNone(get_user(users, id, FALSE))
        ELSE ~IsNone(get_resource(resources, id, FALSE))}

\* C26: the total of a list response equals the store's cardinality for that
\* entity type: starting from N rows, after n successful creates and m
\* successful (204) deletes in any order, and any number of updates and failed
\* requests, total == N + n - m, and total equals the number of ids for which a
\* GET returns 200.
C26_TotalIsCardinality ==
    Listed =>
        LET ent == EntityOf(resp.op)
            n   == (IF ent = "user" THEN user_seq ELSE resource_seq) - NumSeed
            m   == Cardinality(DeletedIds(ent))
        IN  /\ resp.body.total = Len(TableOf(resp.op, users, resources))
            /\ resp.body.total = NumSeed + n - m
            /\ resp.body.total = Cardinality(Gettable(resp.op))

C26_Witness ==
    /\ Listed
    /\ resp.op = "get_users"
    /\ user_seq > NumSeed
    /\ Cardinality(DeletedIds("user")) = 2
    /\ resp.body.total = NumSeed - 1

\* -------------------------------------------------------------- SpecConc

\* Requests side by side.  A handler is a plain function that the server runs
\* on a worker thread, and every statement a session sends sees the rows
\* committed when that statement runs (the store's default isolation level), so
\* another request can commit between two statements of one request and
\* between two store calls of one handler.

\* get_users_paginated up to its first statement, SELECT count(id)
get_users_paginated_count(c, page, size) ==
    /\ Free(c)
    /\ calls' = [calls EXCEPT ![c] = Call("get_users", "counted",
                                          [page |-> page, size |-> size], Len(users), 0)]
    /\ UNCHANGED <<store, router, resources_data, resp, created, deleted>>

\* get_users_paginated from its second statement, SELECT ... OFFSET ... LIMIT,
\* to the answer of get_users_with_delay
get_users_paginated_select(c) ==
    /\ calls[c].op = "get_users" /\ calls[c].pc = "counted"
    /\ LET req         == calls[c].req
           total_count == calls[c].total
           offset      == (req.page - 1) * req.size
           found       == offset_limit(users, offset, req.size)
           total_pages == (total_count + req.size - 1) \div req.size
       IN  resp' = Response("get_users", req, 200, NoDetail,
                            [items |-> found, page |-> req.page, size |-> req.size,
                             total |-> total_count, pages |-> total_pages], FALSE)
    /\ calls' = [calls EXCEPT ![c] = Call("get_users", "done", calls[c].req,
                                          calls[c].total, 200)]
    /\ UNCHANGED <<store, router, resources_data, created, deleted>>

\* update_user_put and update_user_patch (op names which) up to the existence
\* check, get_user
update_user_check(c, op, user_id, name, job) ==
    LET req == [id |-> user_id, name |-> name, job |-> job]
        existing_user == get_user(users, user_id, FALSE)
    IN  /\ Free(c)
        /\ IF user_id < 1
           THEN /\ resp' = Response(op, req, 422, Bare("Invalid user ID"), None, FALSE)
                /\ calls' = [calls EXCEPT ![c] = Call(op, "done", req, 0, 422)]
                /\ UNCHANGED created
           ELSE /\ created' = Forget("user", user_id)
                /\ IF IsNone(existing_user)
                   THEN /\ resp' = Response(op, req, 404,
                                            ErrorObject(not_found("User", user_id)), None, FALSE)
                        /\ calls' = [calls EXCEPT ![c] = Call(op, "done", req, 0, 404)]
                   ELSE /\ calls' = [calls EXCEPT ![c] = Call(op, "checked", req, 0, 0)]
                        /\ UNCHANGED resp
        /\ UNCHANGED <<store, router, resources_data, deleted>>

\* update_user_put and update_user_patch from the update call, update_user, to
\* the answer
update_user_apply(c, pos) ==
    LET req == calls[c].req
        name_parts == split(Val(req.name))
        first_name == IF Len(name_parts) > 0 THEN name_parts[1] ELSE Val(req.name)
        last_name  == IF Len(name_parts) > 1 THEN name_parts[Len(name_parts)] ELSE <<>>
        db == db_update_user(users, req.id, None, Some(first_name), Some(last_name),
                             None, pos, FALSE)
    IN  /\ calls[c].op \in {"update_user_put", "update_user_patch"}
        /\ calls[c].pc = "checked"
        /\ users' = IF ~IsNone(req.name) /\ Truthy(Val(req.name)) THEN db.tbl ELSE users
        /\ resp' = Response(calls[c].op, req, 200, NoDetail,
                            [name |-> req.name, job |-> req.job], FALSE)
        /\ calls' = [calls EXCEPT ![c] = Call(calls[c].op, "done", req, 0, 200)]
        /\ UNCHANGED <<user_seq, resources, resource_seq, router, resources_data,
                       created, deleted>>

\* delete_user up to session.get of the store's delete_user
delete_user_get(c, user_id) ==
    LET req == [id |-> user_id]
    IN  /\ Free(c)
        /\ IF user_id < 1
           THEN /\ resp' = Response("delete_user", req, 422, Bare("Invalid user ID"),
                                    None, FALSE)
                /\ calls' = [calls EXCEPT ![c] = Call("delete_user", "done", req, 0, 422)]
                /\ UNCHANGED created
           ELSE /\ created' = Forget("user", user_id)
                /\ IF IsNone(session_get(users, user_id))
                   THEN /\ resp' = Response("delete_user", req, 404,
                                            ErrorObject(not_found("User", user_id)), None, FALSE)
                        /\ calls' = [calls EXCEPT ![c] = Call("delete_user", "done", req, 0, 404)]
                   ELSE /\ calls' = [calls EXCEPT ![c] = Call("delete_user", "found", req, 0, 0)]
                        /\ UNCHANGED resp
        /\ UNCHANGED <<store, router, resources_data, deleted>>

\* delete_user from session.delete(user); session.commit() to the answer: the
\* DELETE names the row by its primary key and matches no row when another
\* session has deleted it since the get (the mapper then warns and the commit
\* goes through)
delete_user_commit(c) ==
    LET req == calls[c].req
    IN  /\ calls[c].op = "delete_user" /\ calls[c].pc = "found"
        /\ users' = IF has_row(users, req.id) THEN session_delete(users, req.id) ELSE users
        /\ resp' = Response("delete_user", req, 204, NoDetail, None, FALSE)
        /\ deleted' = deleted \cup {[ent |-> "user", id |-> req.id]}
        /\ calls' = [calls EXCEPT ![c] = Call("delete_user", "done", req, 0, 204)]
        /\ UNCHANGED <<user_seq, resources, resource_seq, router, resources_data, created>>

\* get_resources_paginated up to its first statement, SELECT count(id)
get_resources_paginated_count(c, page, size) ==
    /\ Free(c)
    /\ calls' = [calls EXCEPT ![c] = Call("get_resources", "counted",
                                          [page |-> page, size |-> size], Len(resources), 0)]
    /\ UNCHANGED <<store, router, resources_data, resp, created, deleted>>

\* get_resources_paginated from its second statement to the answer of
\* get_resources
get_resources_paginated_select(c) ==
    /\ calls[c].op = "get_resources" /\ calls[c].pc = "counted"
    /\ LET req         == calls[c].req
           total_count == calls[c].total
           offset      == (req.page - 1) * req.size
           found       == offset_limit(resources, offset, req.size)
           total_pages == (total_count + req.size - 1) \div req.size
       IN  resp' = Response("get_resources", req, 200, NoDetail,
                            [items |-> found, page |-> req.page, size |-> req.size,
                             total |-> total_count, pages |-> total_pages], FALSE)
    /\ calls' = [calls EXCEPT ![c] = Call("get_resources", "done", calls[c].req,
                                          calls[c].total, 200)]
    /\ UNCHANGED <<store, router, resources_data, created, deleted>>

\* update_resource_put and update_resource_patch up to the existence check,
\* get_resource
update_resource_check(c, op, resource_id, name, year, color, pantone_value) ==
    LET req == [id |-> resource_id, name |-> name, year |-> year, color |-> color,
                pantone_value |-> pantone_value]
        existing_resource == get_resource(resources, resource_id, FALSE)
    IN  /\ Free(c)
        /\ IF resource_id < 1
           THEN /\ resp' = Response(op, req, 422, Bare("Invalid resource ID"), None, FALSE)
                /\ calls' = [calls EXCEPT ![c] = Call(op, "done", req, 0, 422)]
                /\ UNCHANGED created
           ELSE /\ created' = Forget("resource", resource_id)
                /\ IF IsNone(existing_resource)
                   THEN /\ resp' = Response(op, req, 404,
                                            ErrorObject(not_found("Resource", resource_id)),
                                            None, FALSE)
                        /\ calls' = [calls EXCEPT ![c] = Call(op, "done", req, 0, 404)]
                   ELSE /\ calls' = [calls EXCEPT ![c] = Call(op, "checked", req, 0, 0)]
                        /\ UNCHANGED resp
        /\ UNCHANGED <<store, router, resources_data, deleted>>

\* update_resource_put and update_resource_patch from the update call,
\* update_resource, to the answer
update_resource_apply(c, pos) ==
    LET req == calls[c].req
        db == db_update_resource(resources, req.id, req.name, req.year, req.color,
                                 req.pantone_value, pos, FALSE)
    IN  /\ calls[c].op \in {"update_resource_put", "update_resource_patch"}
        /\ calls[c].pc = "checked"
        /\ resources' = db.tbl
        /\ resp' = Response(calls[c].op, req, 200, NoDetail,
                            [name |-> req.name, year |-> req.year, color |-> req.color,
                             pantone_value |-> req.pantone_value], FALSE)
        /\ calls' = [calls EXCEPT ![c] = Call(calls[c].op, "done", req, 0, 200)]
        /\ UNCHANGED <<users, user_seq, resource_seq, router, resources_data,
                       created, deleted>>

\* delete_resource up to session.get of the store's delete_resource
delete_resource_get(c, resource_id) ==
    LET req == [id |-> resource_id]
    IN  /\ Free(c)
        /\ IF resource_id < 1
           THEN /\ resp' = Response("delete_resource", req, 422, Bare("Invalid resource ID"),
                                    None, FALSE)
                /\ calls' = [calls EXCEPT ![c] = Call("delete_resource", "done", req, 0, 422)]
                /\ UNCHANGED created
           ELSE /\ created' = Forget("resource", resource_id)
                /\ IF IsNone(session_get(resources, resource_id))
                   THEN /\ resp' = Response("delete_resource", req, 404,
                                            ErrorObject(not_found("Resource", resource_id)),
                                            None, FALSE)
                        /\ calls' = [calls EXCEPT ![c] =
                                        Call("delete_resource", "done", req, 0, 404)]
                   ELSE /\ calls' = [calls EXCEPT ![c] =
                                        Call("delete_resource", "found", req, 0, 0)]
                        /\ UNCHANGED resp
        /\ UNCHANGED <<store, router, resources_data, deleted>>

\* delete_resource from session.delete(resource); session.commit() to the answer
delete_resource_commit(c) ==
    LET req == calls[c].req
    IN  /\ calls[c].op = "delete_resource" /\ calls[c].pc = "found"
        /\ resources' = IF has_row(resources, req.id)
                        THEN session_delete(resources, req.id) ELSE resources
        /\ resp' = Response("delete_resource", req, 204, NoDetail, None, FALSE)
        /\ deleted' = deleted \cup {[ent |-> "resource", id |-> req.id]}
        /\ calls' = [calls EXCEPT ![c] = Call("delete_resource", "done", req, 0, 204)]
        /\ UNCHANGED <<users, user_seq, resource_seq, router, resources_data, created>>

\* ids the side-by-side requests name: the seeded rows
SeededIds == 1..NumSeed

\* list requests: the first page at the largest size, the second page of one row
ListRequests == {[page |-> 1, size |-> MaxSize], [page |-> 2, size |-> 1]}

NextConc ==
    \/ /\ router = "users"
       /\ \E c \in Calls, l \in ListRequests : get_users_paginated_count(c, l.page, l.size)
    \/ /\ router = "users"
       /\ \E c \in Calls : get_users_paginated_select(c)
    \/ /\ router = "users"
       /\ \E pos \in InsertPositions(users, user_seq) :
             create_user(ValidUser.name, ValidUser.job, 1, pos, FALSE)
    \/ /\ router = "users"
       /\ \E c \in Calls, op \in {"update_user_put", "update_user_patch"},
             user_id \in SeededIds :
             update_user_check(c, op, user_id, ValidUserUpdate.name, ValidUserUpdate.job)
    \/ /\ router = "users"
       /\ \E c \in Calls : update_user_apply(c, InPlace(users, calls[c].req.id))
    \/ /\ router = "users"
       /\ \E c \in Calls, user_id \in SeededIds : delete_user_get(c, user_id)
    \/ /\ router = "users"
       /\ \E c \in Calls : delete_user_commit(c)
    \/ /\ router = "resources"
       /\ \E c \in Calls, l \in ListRequests : get_resources_paginated_count(c, l.page, l.size)
    \/ /\ router = "resources"
       /\ \E c \in Calls : get_resources_paginated_select(c)
    \/ /\ router = "resources"
       /\ \E pos \in InsertPositions(resources, resource_seq) :
             create_resource(ValidResource.name, ValidResource.year, ValidResource.color,
                             ValidResource.pantone_value, pos, FALSE)
    \/ /\ router = "resources"
       /\ \E c \in Calls, op \in {"update_resource_put", "update_resource_patch"},
             resource_id \in SeededIds :
             update_resource_check(c, op, resource_id, ValidResourceUpdate.name,
                                   ValidResourceUpdate.year, ValidResourceUpdate.color,
                                   ValidResourceUpdate.pantone_value)
    \/ /\ router = "resources"
       /\ \E c \in Calls : update_resource_apply(c, InPlace(resources, calls[c].req.id))
    \/ /\ router = "resources"
       /\ \E c \in Calls, resource_id \in SeededIds : delete_resource_get(c, resource_id)
    \/ /\ router = "resources"
       /\ \E c \in Calls : delete_resource_commit(c)

SpecConc == Init /\ [][NextConc]_vars

\* worker c answered its request in this step
Answered(c) == calls'[c].pc = "done" /\ calls[c].pc # "done"

\* C27: a 200 response from PUT or PATCH implies that this request's update
\* was applied to an existing row: if the row is deleted by a concurrent
\* request between the handler's existence check and its update call, or the
\* update call returns None, the handler does not answer 200.
C27_UpdateApplied ==
    [][\A c \in Calls :
          (Answered(c) /\ calls'[c].op \in UpdateOps /\ calls'[c].status = 200) =>
             LET op     == calls'[c].op
                 req    == calls'[c].req
                 before == TableOf(op, users, resources)
                 after  == TableOf(op, users', resources')
             IN  /\ has_row(before, req.id)
                 /\ has_row(after, req.id)
                 /\ IF op \in UserOps
                    THEN RowOf(after, req.id).first_name = split(Val(req.name))[1]
                    ELSE RowOf(after, req.id).name = Val(req.name)]_vars

\* C29: a list response is internally consistent even when creates and deletes
\* from other requests interleave with it: total and items describe the same
\* store state, so len(items) == min(size, max(0, total - (page-1)*size)).
C29_ListConsistent ==
    Listed =>
        LET left == resp.body.total - (resp.req.page - 1) * resp.req.size
        IN  Len(resp.body.items) = Min(resp.req.size, IF left < 0 THEN 0 ELSE left)

\* C30: when two DELETE requests for the same existing id run concurrently,
\* exactly one of them returns 204 and the other 404, and the row is absent
\* afterwards; the number of 204 responses for an id never exceeds the number
\* of times that id was created (once: ids are not reused).
C30_OneDeleteWins ==
    [][\A c \in Calls :
          (Answered(c) /\ calls'[c].op \in DeleteOps /\ calls'[c].status = 204) =>
             LET op  == calls'[c].op
                 id  == calls'[c].req.id
             IN  /\ has_row(TableOf(op, users, resources), id)
                 /\ ~has_row(TableOf(op, users', resources'), id)
                 /\ [ent |-> EntityOf(op), id |-> id] \notin deleted]_vars

====
